---- MODULE Spec2Model ----
(***************************************************************************)
(* CNIC_OCR: the text-to-field extraction pipeline of                      *)
(* services/vision_service.py (VisionService._parse_cnic_text_enhanced and *)
(* its strategies) and the confidence computation of app.py.               *)
(*                                                                         *)
(* A Python str is a sequence of one-character strings.  An Urdu letter is *)
(* the one-element string naming its code point ("U+0627").  None is the   *)
(* one-element sequence NULL, which is no str.                             *)
(***************************************************************************)
EXTENDS Integers, Sequences, FiniteSets, TLC

\* ------------------------------------------------------------------------
\* Characters and the str methods the parser uses
\* ------------------------------------------------------------------------
UpperSeq == <<"A","B","C","D","E","F","G","H","I","J","K","L","M","N","O","P","Q","R","S","T","U","V","W","X","Y","Z">>
LowerSeq == <<"a","b","c","d","e","f","g","h","i","j","k","l","m","n","o","p","q","r","s","t","u","v","w","x","y","z">>
DigitSeq == <<"0","1","2","3","4","5","6","7","8","9">>
UpperLetters == {UpperSeq[i] : i \in 1..26}
LowerLetters == {LowerSeq[i] : i \in 1..26}
AsciiLetters == UpperLetters \cup LowerLetters
Digits == {DigitSeq[i] : i \in 1..10}
UrduLetters ==
  {"U+0621", "U+0626", "U+0627", "U+0628", "U+062A", "U+062C", "U+062E",
   "U+062F", "U+0631", "U+0633", "U+0634", "U+0639", "U+0644", "U+0645",
   "U+0646", "U+0648", "U+067E", "U+06A9", "U+06CC"}
WhiteSpace == {" ", "\n", "\t"}
Punctuation == {":", "-", "/", ".", "'", ",", "_"}
Chars == AsciiLetters \cup Digits \cup UrduLetters \cup WhiteSpace \cup Punctuation

LowerMap == [c \in UpperLetters |-> LowerSeq[CHOOSE i \in 1..26 : UpperSeq[i] = c]]
UpperMap == [c \in LowerLetters |-> UpperSeq[CHOOSE i \in 1..26 : LowerSeq[i] = c]]
DigitVal == [c \in Digits |-> (CHOOSE i \in 1..10 : DigitSeq[i] = c) - 1]

\* str.lower / str.upper on one character
LowerChar(c) == IF c \in UpperLetters THEN LowerMap[c] ELSE c
UpperChar(c) == IF c \in LowerLetters THEN UpperMap[c] ELSE c
\* c.isalpha(), c.isspace(), regex \w, cased characters
IsAlphaChar(c) == c \in AsciiLetters \/ c \in UrduLetters
IsSpaceChar(c) == c \in WhiteSpace
IsWordChar(c) == IsAlphaChar(c) \/ c \in Digits \/ c = "_"
IsCasedChar(c) == c \in AsciiLetters

ToLower(s) == [i \in 1..Len(s) |-> LowerChar(s[i])]
ToUpper(s) == [i \in 1..Len(s) |-> UpperChar(s[i])]

\* str.isalpha(): non-empty and every character alphabetic
IsAlpha(s) == Len(s) > 0 /\ \A i \in 1..Len(s) : IsAlphaChar(s[i])

\* str.istitle(): upper case only after uncased, lower case only after cased,
\* and at least one cased character
IsTitle(s) ==
  /\ \E i \in 1..Len(s) : IsCasedChar(s[i])
  /\ \A i \in 1..Len(s) :
       LET prevCased == i > 1 /\ IsCasedChar(s[i-1]) IN
       /\ s[i] \in UpperLetters => ~prevCased
       /\ s[i] \in LowerLetters => prevCased

\* str.title()
Title(s) ==
  [i \in 1..Len(s) |->
     IF i > 1 /\ IsCasedChar(s[i-1]) THEN LowerChar(s[i]) ELSE UpperChar(s[i])]

SetMin(S) == CHOOSE x \in S : \A y \in S : x <= y
SetMax(S) == CHOOSE x \in S : \A y \in S : x >= y
\* the indices 1..n in order, and those of them that pass a test
Indices(n) == [i \in 1..n |-> i]

\* str.strip()
Strip(s) ==
  LET solid == {i \in 1..Len(s) : ~IsSpaceChar(s[i])} IN
  IF solid = {} THEN <<>> ELSE SubSeq(s, SetMin(solid), SetMax(solid))

\* str.split(): the maximal runs of non-whitespace characters, in order
Split(s) ==
  LET n == Len(s)
      starts == SelectSeq(Indices(n), LAMBDA i :
                  ~IsSpaceChar(s[i]) /\ (i = 1 \/ IsSpaceChar(s[i - 1])))
      ends == SelectSeq(Indices(n), LAMBDA i :
                ~IsSpaceChar(s[i]) /\ (i = n \/ IsSpaceChar(s[i + 1])))
  IN [k \in 1..Len(starts) |-> SubSeq(s, starts[k], ends[k])]

\* str.split('\n'): the pieces between newlines, empty pieces included
SplitLines(s) ==
  LET n == Len(s)
      nl == SelectSeq(Indices(n), LAMBDA i : s[i] = "\n")
      from(k) == IF k = 1 THEN 1 ELSE nl[k - 1] + 1
      to(k) == IF k = Len(nl) + 1 THEN n ELSE nl[k] - 1
  IN [k \in 1..(Len(nl) + 1) |-> SubSeq(s, from(k), to(k))]

\* ' '.join(words)
RECURSIVE JoinSpace(_)
JoinSpace(ws) ==
  IF Len(ws) = 0 THEN <<>>
  ELSE IF Len(ws) = 1 THEN ws[1]
       ELSE ws[1] \o <<" ">> \o JoinSpace(Tail(ws))

\* s[:n]
Prefix(s, n) == SubSeq(s, 1, IF Len(s) < n THEN Len(s) ELSE n)

\* needle in s (substring test)
Contains(s, needle) ==
  \E i \in 1..(Len(s) - Len(needle) + 1) : SubSeq(s, i, i + Len(needle) - 1) = needle

\* ------------------------------------------------------------------------
\* Regular expressions: the backtracking matcher of Python's re
\* ------------------------------------------------------------------------
\* A pattern is a sequence of items.  The matcher tries the alternatives of
\* an item in the order re tries them (alternation left to right, greedy
\* quantifier longest first, lazy quantifier shortest first) and returns the
\* first way the whole pattern matches.
Unbounded == 1000000
Lit(s) == [k |-> "lit", s |-> s]
Cls(set, lo, hi) == [k |-> "cls", c |-> set, lo |-> lo, hi |-> hi, greedy |-> TRUE]
ClsLazy(set, lo, hi) == [k |-> "cls", c |-> set, lo |-> lo, hi |-> hi, greedy |-> FALSE]
Alt(alts) == [k |-> "alt", a |-> alts]
Opt(r) == [k |-> "alt", a |-> <<r, <<>>>>]
Look(r) == [k |-> "look", r |-> r]
GrpOpen == [k |-> "gs"]
GrpClose == [k |-> "ge"]
Bol == [k |-> "bol"]
Eol == [k |-> "eol"]
WordB == [k |-> "wb"]

\* flags
IC == [ic |-> TRUE, ml |-> FALSE]     \* re.IGNORECASE
ICML == [ic |-> TRUE, ml |-> TRUE]    \* re.IGNORECASE | re.MULTILINE
NoFlags == [ic |-> FALSE, ml |-> FALSE]

\* character classes
ClsDigit == Digits                                  \* \d
ClsSpace == WhiteSpace                              \* \s
ClsDashSpace == {"-"} \cup WhiteSpace               \* [-\s]
ClsColonSpace == {":"} \cup WhiteSpace              \* [:\s]
ClsColonSpaceQuote == {":", "'"} \cup WhiteSpace    \* [:\s\']
ClsQuote == {"'"}                                   \* [\']
ClsAlphaSpace == AsciiLetters \cup WhiteSpace       \* [A-Za-z\s]
ClsUpper == UpperLetters                            \* [A-Z]
ClsDateSep == {"-", "/", "."}                       \* [-/.]
ClsNonLetter == Chars \ AsciiLetters                \* [^A-Za-z]

NoMatch == <<>>

CharIn(c, set, fl) ==
  \/ c \in set
  \/ fl.ic /\ (LowerChar(c) \in set \/ UpperChar(c) \in set)

LitAt(t, p, s, fl) ==
  /\ p + Len(s) - 1 <= Len(t)
  /\ \A i \in 1..Len(s) :
       IF fl.ic THEN LowerChar(t[p + i - 1]) = LowerChar(s[i]) ELSE t[p + i - 1] = s[i]

\* the number of characters of the class at t[p..], at most hi
RunLen(t, p, set, hi, fl) ==
  LET left == Len(t) - p + 1
      limit == IF hi < left THEN hi ELSE left
  IN CHOOSE k \in 0..limit :
       /\ k = limit \/ ~CharIn(t[p + k], set, fl)
       /\ \A j \in 0..(k - 1) : CharIn(t[p + j], set, fl)

AtBol(t, p, fl) == p = 1 \/ (fl.ml /\ t[p - 1] = "\n")
AtEol(t, p, fl) ==
  \/ p = Len(t) + 1
  \/ p = Len(t) /\ t[p] = "\n"
  \/ fl.ml /\ p <= Len(t) /\ t[p] = "\n"
AtWordB(t, p) ==
  LET before == p > 1 /\ IsWordChar(t[p - 1])
      after == p <= Len(t) /\ IsWordChar(t[p])
  IN before # after

\* MatchAt(re, t, p, gs, ge, fl): the match of the items re at position p of
\* t, as <<end, group start, group end>>, or NoMatch
RECURSIVE MatchAt(_, _, _, _, _, _)
RECURSIVE TryAlts(_, _, _, _, _, _, _, _)
MatchAt(re, t, p, gs, ge, fl) ==
  IF Len(re) = 0 THEN <<p, gs, ge>>
  ELSE LET it == Head(re)
           rest == Tail(re)
       IN CASE it.k = "lit" ->
                 IF LitAt(t, p, it.s, fl) THEN MatchAt(rest, t, p + Len(it.s), gs, ge, fl)
                 ELSE NoMatch
            [] it.k = "cls" ->
                 LET n == RunLen(t, p, it.c, it.hi, fl) IN
                 IF n < it.lo THEN NoMatch
                 ELSE LET ks == {k \in it.lo..n :
                                   MatchAt(rest, t, p + k, gs, ge, fl) # NoMatch}
                      IN IF ks = {} THEN NoMatch
                         ELSE MatchAt(rest, t,
                                      p + (IF it.greedy THEN SetMax(ks) ELSE SetMin(ks)),
                                      gs, ge, fl)
            [] it.k = "alt" -> TryAlts(it.a, 1, rest, t, p, gs, ge, fl)
            [] it.k = "look" ->
                 IF MatchAt(it.r, t, p, gs, ge, fl) = NoMatch THEN NoMatch
                 ELSE MatchAt(rest, t, p, gs, ge, fl)
            [] it.k = "gs" -> MatchAt(rest, t, p, p, ge, fl)
            [] it.k = "ge" -> MatchAt(rest, t, p, gs, p, fl)
            [] it.k = "bol" -> IF AtBol(t, p, fl) THEN MatchAt(rest, t, p, gs, ge, fl) ELSE NoMatch
            [] it.k = "eol" -> IF AtEol(t, p, fl) THEN MatchAt(rest, t, p, gs, ge, fl) ELSE NoMatch
            [] it.k = "wb" -> IF AtWordB(t, p) THEN MatchAt(rest, t, p, gs, ge, fl) ELSE NoMatch
TryAlts(alts, i, rest, t, p, gs, ge, fl) ==
  IF i > Len(alts) THEN NoMatch
  ELSE LET r == MatchAt(alts[i] \o rest, t, p, gs, ge, fl) IN
       IF r # NoMatch THEN r ELSE TryAlts(alts, i + 1, rest, t, p, gs, ge, fl)

\* re.search(re, t) from position from on: the leftmost match as
\* <<start, end, gs, ge>>
SearchFrom(re, t, from, fl) ==
  LET starts == {s \in from..(Len(t) + 1) : MatchAt(re, t, s, 0, 0, fl) # NoMatch} IN
  IF starts = {} THEN NoMatch
  ELSE <<SetMin(starts)>> \o MatchAt(re, t, SetMin(starts), 0, 0, fl)
Search(re, t, fl) == SearchFrom(re, t, 1, fl)
Matches(re, t, fl) == Search(re, t, fl) # NoMatch
\* match.group(1)
Group1(t, m) == SubSeq(t, m[3], m[4] - 1)
\* match.group(0)
Group0(t, m) == SubSeq(t, m[1], m[2] - 1)

\* re.findall(re, t) for a pattern with one group: the groups of the
\* successive non-overlapping matches
RECURSIVE FindAllFrom(_, _, _, _)
FindAllFrom(re, t, from, fl) ==
  LET m == SearchFrom(re, t, from, fl) IN
  IF m = NoMatch THEN <<>>
  ELSE <<Group1(t, m)>> \o FindAllFrom(re, t, IF m[2] > m[1] THEN m[2] ELSE m[2] + 1, fl)
FindAll(re, t, fl) == FindAllFrom(re, t, 1, fl)

\* re.sub(r'\s+', ' ', s): one space for every run of whitespace
CollapseSpace(s) ==
  LET kept == SelectSeq(Indices(Len(s)), LAMBDA i :
                ~IsSpaceChar(s[i]) \/ i = 1 \/ ~IsSpaceChar(s[i - 1]))
  IN [k \in 1..Len(kept) |-> IF IsSpaceChar(s[kept[k]]) THEN " " ELSE s[kept[k]]]
\* re.sub('[set]', '', s) and re.sub('[^set]', '', s)
RemoveChars(s, set) == SelectSeq(s, LAMBDA c : c \notin set)
KeepChars(s, set) == SelectSeq(s, LAMBDA c : c \in set)

\* ------------------------------------------------------------------------
\* The record and the formatters
\* ------------------------------------------------------------------------
NULL == <<"None">>
\* Python truth of a str-or-None value
Truthy(v) == v # NULL /\ v # <<>>

Fields ==
  <<"identity_number", "name", "father_name", "gender", "country_of_stay",
    "date_of_birth", "date_of_issue", "date_of_expiry">>
FieldSet == {Fields[i] : i \in 1..Len(Fields)}
\* the initial dict with one key forgotten
EmptyRecordNoExpiry == [f \in FieldSet \ {"date_of_expiry"} |-> NULL]
EmptyRecord == [f \in FieldSet |-> NULL]
\* the outcome of a function that raised (IndexError) instead of returning
Raised == [raised |-> "IndexError"]

\* _format_name that forgets name.title()
FormatNameNoTitle(name) ==
  IF ~Truthy(name) THEN NULL
  ELSE LET noSpecial == SelectSeq(name, LAMBDA c : IsWordChar(c) \/ IsSpaceChar(c))
       IN CollapseSpace(Strip(noSpecial))
\* _format_name
FormatName(name) ==
  IF ~Truthy(name) THEN NULL
  ELSE LET noSpecial == SelectSeq(name, LAMBDA c : IsWordChar(c) \/ IsSpaceChar(c))
       IN Title(CollapseSpace(Strip(noSpecial)))

\* the identity number left as the bare digits
FormatCnicNoDashes(number) == number
\* the format with the last digit taken one place too early
FormatCnicOffByOne(number) ==
  SubSeq(number, 1, 5) \o <<"-">> \o SubSeq(number, 6, 12) \o <<"-">> \o <<number[12]>>
\* f"{number[:5]}-{number[5:12]}-{number[12]}" for a 13-character number
FormatCnic(number) ==
  SubSeq(number, 1, 5) \o <<"-">> \o SubSeq(number, 6, 12) \o <<"-">> \o <<number[13]>>

\* int(digits)
RECURSIVE ToInt(_)
ToInt(ds) == IF Len(ds) = 0 THEN 0 ELSE 10 * ToInt(SubSeq(ds, 1, Len(ds) - 1)) + DigitVal[ds[Len(ds)]]
TwoDigits(n) == <<DigitSeq[(n \div 10) + 1], DigitSeq[(n % 10) + 1]>>
RECURSIVE DropLeadingZeros(_)
DropLeadingZeros(ds) ==
  IF Len(ds) > 1 /\ ds[1] = "0" THEN DropLeadingZeros(Tail(ds)) ELSE ds
IsLeap(y) == (y % 4 = 0 /\ y % 100 # 0) \/ y % 400 = 0
DaysIn(m, y) ==
  IF m = 2 THEN (IF IsLeap(y) THEN 29 ELSE 28)
  ELSE IF m \in {4, 6, 9, 11} THEN 30 ELSE 31
ValidDate(d, m, y) == y >= 1 /\ m \in 1..12 /\ d >= 1 /\ d <= DaysIn(m, y)

\* the three parts of a token \d{1,2}[-/.]\d{1,2}[-/.]\d{4} and its separators
DateParts(s) ==
  LET i1 == CHOOSE i \in 1..Len(s) : s[i] \in ClsDateSep
      i2 == CHOOSE i \in (i1 + 1)..Len(s) : s[i] \in ClsDateSep
  IN [a |-> ToInt(SubSeq(s, 1, i1 - 1)), b |-> ToInt(SubSeq(s, i1 + 1, i2 - 1)),
      y |-> ToInt(SubSeq(s, i2 + 1, Len(s))), s1 |-> s[i1], s2 |-> s[i2]]
\* strftime('%d/%m/%Y'); glibc prints a year below 1000 without padding
StrfDate(d, m, y, ydigits) ==
  TwoDigits(d) \o <<"/">> \o TwoDigits(m) \o <<"/">> \o DropLeadingZeros(ydigits)
\* _format_date: the first of the formats %d/%m/%Y, %d-%m-%Y, %d.%m.%Y,
\* %m/%d/%Y, %m-%d-%Y that parses the token; %Y/%m/%d and %Y-%m-%d need four
\* leading digits and never parse a token of this shape
FormatDate(date_str) ==
  IF ~Truthy(date_str) THEN NULL
  ELSE LET p == DateParts(date_str)
           ydigits == SubSeq(date_str, Len(date_str) - 3, Len(date_str))
           same == p.s1 = p.s2
       IN IF same /\ ValidDate(p.a, p.b, p.y)
          THEN StrfDate(p.a, p.b, p.y, ydigits)
          ELSE IF same /\ p.s1 \in {"/", "-"} /\ ValidDate(p.b, p.a, p.y)
               THEN StrfDate(p.b, p.a, p.y, ydigits)
               ELSE date_str

\* ------------------------------------------------------------------------
\* _is_valid_name
\* ------------------------------------------------------------------------
BoilerplateName ==
  <<Alt(<< <<Lit(<<"P","A","K","I","S","T","A","N">>)>>, <<Lit(<<"I","D","E","N","T","I","T","Y">>)>>, <<Lit(<<"C","A","R","D">>)>>,
           <<Lit(<<"R","E","P","U","B","L","I","C">>)>>, <<Lit(<<"G","O","V","E","R","N","M","E","N","T">>)>>, <<Lit(<<"N","A","T","I","O","N","A","L">>)>>,
           <<Lit(<<"C","O","M","P","U","T","E","R","I","Z","E","D">>)>> >>)>>
BoilerplateFather ==
  <<Alt(<< <<Lit(<<"P","A","K","I","S","T","A","N">>)>>, <<Lit(<<"I","D","E","N","T","I","T","Y">>)>>, <<Lit(<<"C","A","R","D">>)>>,
           <<Lit(<<"R","E","P","U","B","L","I","C">>)>>, <<Lit(<<"G","O","V","E","R","N","M","E","N","T">>)>>, <<Lit(<<"N","A","T","I","O","N","A","L">>)>> >>)>>
invalid_patterns ==
  << BoilerplateName,
     <<Bol, Cls(ClsDigit, 1, Unbounded), Eol>>,
     <<Bol, Cls(ClsNonLetter, 0, Unbounded), Eol>>,
     <<Alt(<< <<Lit(<<"D","A","T","E">>)>>, <<Lit(<<"B","I","R","T","H">>)>>, <<Lit(<<"I","S","S","U","E">>)>>,
              <<Lit(<<"E","X","P","I","R","Y">>)>>, <<Lit(<<"G","E","N","D","E","R">>)>>, <<Lit(<<"C","O","U","N","T","R","Y">>)>> >>)>> >>
LetterCount(name) == Len(SelectSeq(name, IsAlphaChar))
\* _is_valid_name with the share of letters taken over the trimmed string
IsValidNameTrimmedShare(name) ==
  IF ~Truthy(name) \/ Len(Strip(name)) < 2 THEN FALSE
  ELSE IF \E i \in 1..Len(invalid_patterns) : Matches(invalid_patterns[i], name, IC)
       THEN FALSE
       ELSE 10 * LetterCount(name) >= 7 * Len(Strip(name))
IsValidName(name) ==
  IF ~Truthy(name) \/ Len(Strip(name)) < 2 THEN FALSE
  ELSE IF \E i \in 1..Len(invalid_patterns) : Matches(invalid_patterns[i], name, IC)
       THEN FALSE
       ELSE 10 * LetterCount(name) >= 7 * Len(name)

\* ------------------------------------------------------------------------
\* _clean_text
\* ------------------------------------------------------------------------
\* the dictionary with one correction that is itself a misread of the dictionary
replacementsChained ==
  << <<<<"I","d","e","n","t","i","l","y">>, <<"I","d","e","n","t","i","t","y">>>>, <<<<"l","d","e","n","t","i","t","y">>, <<"I","d","e","n","t","i","t","y">>>>,
     <<<<"l","d","e","n","i","t","y">>, <<"I","d","e","n","t","i","t","y">>>>, <<<<"C","o","u","n","t","l","y">>, <<"C","o","u","n","t","r","y">>>>,
     <<<<"F","a","t","h","e","l">>, <<"F","a","t","h","e","r">>>>, <<<<"G","e","n","d","e","t">>, <<"G","e","n","d","e","r">>>>,
     <<<<"E","x","p","i","l","y">>, <<"E","x","p","i","r","y">>>>, <<<<"l","s","s","u","e">>, <<"I","s","s","u","e">>>>,
     <<<<"B","l","r","t","h">>, <<"B","i","r","t","h">>>>, <<<<"B","l","t","h">>, <<"B","l","r","t","h">>>>,
     <<<<"N","a","l","i","o","n","a","l">>, <<"N","a","t","i","o","n","a","l">>>>, <<<<"N","a","t","l","o","n","a","l">>, <<"N","a","t","i","o","n","a","l">>>>,
     <<<<"P","a","k","l","s","t","a","n">>, <<"P","a","k","i","s","t","a","n">>>>, <<<<"P","A","K","L","S","T","A","N">>, <<"P","A","K","I","S","T","A","N">>>>,
     <<<<"S","/","o">>, <<"S","/","O">>>>, <<<<"D","/","o">>, <<"D","/","O">>>>, <<<<"W","/","o">>, <<"W","/","O">>>> >>
replacements ==
  << <<<<"I","d","e","n","t","i","l","y">>, <<"I","d","e","n","t","i","t","y">>>>, <<<<"l","d","e","n","t","i","t","y">>, <<"I","d","e","n","t","i","t","y">>>>,
     <<<<"l","d","e","n","i","t","y">>, <<"I","d","e","n","t","i","t","y">>>>, <<<<"C","o","u","n","t","l","y">>, <<"C","o","u","n","t","r","y">>>>,
     <<<<"F","a","t","h","e","l">>, <<"F","a","t","h","e","r">>>>, <<<<"G","e","n","d","e","t">>, <<"G","e","n","d","e","r">>>>,
     <<<<"E","x","p","i","l","y">>, <<"E","x","p","i","r","y">>>>, <<<<"l","s","s","u","e">>, <<"I","s","s","u","e">>>>,
     <<<<"B","l","r","t","h">>, <<"B","i","r","t","h">>>>, <<<<"B","l","t","h">>, <<"B","i","r","t","h">>>>,
     <<<<"N","a","l","i","o","n","a","l">>, <<"N","a","t","i","o","n","a","l">>>>, <<<<"N","a","t","l","o","n","a","l">>, <<"N","a","t","i","o","n","a","l">>>>,
     <<<<"P","a","k","l","s","t","a","n">>, <<"P","a","k","i","s","t","a","n">>>>, <<<<"P","A","K","L","S","T","A","N">>, <<"P","A","K","I","S","T","A","N">>>>,
     <<<<"S","/","o">>, <<"S","/","O">>>>, <<<<"D","/","o">>, <<"D","/","O">>>>, <<<<"W","/","o">>, <<"W","/","O">>>> >>
\* str.replace(old, new): the occurrences of old taken left to right, each
\* search starting behind the occurrence before it
Replace(s, old, new) ==
  LET n == Len(s)
      m == Len(old)
      occ == {i \in 1..(n - m + 1) : s[i] = old[1] /\ SubSeq(s, i, i + m - 1) = old}
      R[from \in 1..(n + 1)] ==
        LET later == {i \in occ : i >= from} IN
        IF later = {} THEN SubSeq(s, from, n)
        ELSE LET i == SetMin(later)
             IN SubSeq(s, from, i - 1) \o new \o R[i + m]
  IN R[1]
\* the loop over replacements.items(), in the order of the dict
ApplyReplacements(s, reps) ==
  LET A[i \in 0..Len(reps)] ==
        IF i = 0 THEN s ELSE Replace(A[i - 1], reps[i][1], reps[i][2])
  IN A[Len(reps)]
\* _clean_text without the re.sub of the whitespace runs
CleanTextNoCollapse(t) == ApplyReplacements(t, replacements)
CleanText(t) == ApplyReplacements(CollapseSpace(t), replacements)

\* ------------------------------------------------------------------------
\* _extract_with_patterns
\* ------------------------------------------------------------------------
\* \d{5}[-\s]?\d{7}[-\s]?\d{1} in a group
CnicGroup ==
  <<GrpOpen, Cls(ClsDigit, 5, 5), Cls(ClsDashSpace, 0, 1), Cls(ClsDigit, 7, 7),
    Cls(ClsDashSpace, 0, 1), Cls(ClsDigit, 1, 1), GrpClose>>
cnic_patterns ==
  << CnicGroup,
     <<GrpOpen, Cls(ClsDigit, 13, 13), GrpClose>>,
     <<Alt(<< <<Lit(<<"I","d","e","n","t","i","t","y">>), Cls(ClsSpace, 1, Unbounded), Lit(<<"N","u","m","b","e","r">>)>>,
              <<Lit(<<"U+0634","U+0646","U+0627","U+062E","U+062A","U+06CC">>),
                Cls(ClsSpace, 1, Unbounded),
                Lit(<<"U+0646","U+0645","U+0628","U+0631">>)>> >>),
       Cls(ClsColonSpace, 0, Unbounded)>> \o CnicGroup,
     <<Alt(<< <<Lit(<<"C","N","I","C">>)>>, <<Lit(<<"N","I","C">>)>> >>),
       Cls(ClsColonSpace, 0, Unbounded)>> \o CnicGroup,
     <<Lit(<<"I","D">>), Cls(ClsColonSpace, 0, Unbounded)>> \o CnicGroup >>

\* ([A-Za-z\s]{2,40})
NameGroup == <<GrpOpen, Cls(ClsAlphaSpace, 2, 40), GrpClose>>
name_patterns ==
  << <<Alt(<< <<Lit(<<"N","a","m","e">>)>>, <<Lit(<<"U+0627","U+0633","U+0645">>)>> >>),
       Cls(ClsColonSpace, 0, Unbounded)>> \o NameGroup \o
     <<Look(<<Cls(ClsSpace, 0, Unbounded),
              Alt(<< <<Lit(<<"F","a","t","h","e","r">>)>>, <<Lit(<<"U+0648","U+0627","U+0644","U+062F">>)>>,
                     <<Lit(<<"G","e","n","d","e","r">>)>>, <<Lit(<<"U+062C","U+0646","U+0633">>)>>,
                     <<Eol>> >>)>>)>>,
     <<Alt(<< <<Lit(<<"H","o","l","d","e","r">>)>>, <<Lit(<<"B","e","a","r","e","r">>)>> >>),
       Cls(ClsColonSpace, 0, Unbounded)>> \o NameGroup \o
     <<Look(<<Cls(ClsSpace, 0, Unbounded),
              Alt(<< <<Lit(<<"F","a","t","h","e","r">>)>>, <<Lit(<<"U+0648","U+0627","U+0644","U+062F">>)>>,
                     <<Eol>> >>)>>)>>,
     <<Alt(<< <<Bol>>, <<Lit(<<"\n">>)>> >>),
       GrpOpen, Cls(ClsUpper, 1, 1), Cls(ClsAlphaSpace, 2, 39), GrpClose,
       Look(<<Cls(ClsSpace, 0, Unbounded),
              Alt(<< <<Lit(<<"F","a","t","h","e","r">>)>>, <<Lit(<<"U+0648","U+0627","U+0644","U+062F">>)>>,
                     <<Lit(<<"S","/","O">>)>>, <<Lit(<<"D","/","O">>)>> >>)>>)>>,
     <<Lit(<<"U+0646","U+0627","U+0645">>), Cls(ClsColonSpace, 0, Unbounded)>> \o NameGroup >>

father_patterns ==
  << <<Alt(<< <<Lit(<<"F","a","t","h","e","r">>)>>, <<Lit(<<"U+0648","U+0627","U+0644","U+062F">>)>> >>),
       Cls(ClsColonSpaceQuote, 0, Unbounded), Opt(<<Lit(<<"N","a","m","e">>)>>),
       Cls(ClsColonSpace, 0, Unbounded)>> \o NameGroup \o
     <<Look(<<Cls(ClsSpace, 0, Unbounded),
              Alt(<< <<Lit(<<"G","e","n","d","e","r">>)>>, <<Lit(<<"U+062C","U+0646","U+0633">>)>>,
                     <<Lit(<<"D","a","t","e">>)>>, <<Lit(<<"C","o","u","n","t","r","y">>)>>, <<Eol>> >>)>>)>>,
     <<Alt(<< <<Lit(<<"S","/","O">>)>>, <<Lit(<<"D","/","O">>)>>, <<Lit(<<"W","/","O">>)>> >>),
       Cls(ClsColonSpace, 0, Unbounded)>> \o NameGroup \o
     <<Look(<<Cls(ClsSpace, 0, Unbounded),
              Alt(<< <<Lit(<<"G","e","n","d","e","r">>)>>, <<Lit(<<"D","a","t","e">>)>>, <<Lit(<<"C","o","u","n","t","r","y">>)>>,
                     <<Eol>> >>)>>)>>,
     <<Lit(<<"U+0648","U+0627","U+0644","U+062F">>), Cls(ClsSpace, 0, Unbounded),
       Lit(<<"U+06A9","U+0627">>), Cls(ClsSpace, 0, Unbounded),
       Lit(<<"U+0646","U+0627","U+0645">>), Cls(ClsColonSpace, 0, Unbounded)>> \o NameGroup,
     <<Lit(<<"F","a","t","h","e","r">>), Cls(ClsQuote, 0, Unbounded), Opt(<<Lit(<<"s">>)>>),
       Cls(ClsSpace, 0, Unbounded), Lit(<<"N","a","m","e">>),
       Cls(ClsColonSpace, 0, Unbounded)>> \o NameGroup >>

gender_patterns ==
  << <<Alt(<< <<Lit(<<"G","e","n","d","e","r">>)>>, <<Lit(<<"U+062C","U+0646","U+0633">>)>>, <<Lit(<<"S","e","x">>)>> >>),
       Cls(ClsColonSpace, 0, Unbounded), GrpOpen,
       Alt(<< <<Lit(<<"M","a","l","e">>)>>, <<Lit(<<"F","e","m","a","l","e">>)>>, <<Lit(<<"M">>)>>, <<Lit(<<"F">>)>>,
              <<Lit(<<"U+0645","U+0631","U+062F">>)>>,
              <<Lit(<<"U+0639","U+0648","U+0631","U+062A">>)>> >>),
       GrpClose, WordB>>,
     <<Alt(<< <<Bol>>, <<Cls(ClsSpace, 1, 1)>> >>), GrpOpen,
       Alt(<< <<Lit(<<"M","a","l","e">>)>>, <<Lit(<<"F","e","m","a","l","e">>)>> >>), GrpClose,
       Cls(ClsSpace, 0, Unbounded), Alt(<< <<Eol>>, <<Cls(ClsSpace, 1, 1)>> >>)>>,
     <<Alt(<< <<Lit(<<"G","e","n","d","e","r">>)>>, <<Lit(<<"S","e","x">>)>> >>),
       Cls(ClsColonSpace, 0, Unbounded), GrpOpen,
       Alt(<< <<Lit(<<"M","A","L","E">>)>>, <<Lit(<<"F","E","M","A","L","E">>)>> >>), GrpClose>> >>

\* each country pattern with the last character of its source text, which
\* the loop tests with pattern.endswith(')')
country_patterns ==
  << [re |-> <<Alt(<< <<Lit(<<"C","o","u","n","t","r","y">>), Cls(ClsSpace, 1, Unbounded), Lit(<<"o","f">>),
                        Cls(ClsSpace, 1, Unbounded), Lit(<<"S","t","a","y">>)>>,
                      <<Lit(<<"C","o","u","n","t","r","y">>)>> >>),
               Cls(ClsColonSpace, 0, Unbounded),
               GrpOpen, ClsLazy(ClsAlphaSpace, 1, Unbounded), GrpClose,
               Look(<<Cls(ClsSpace, 0, Unbounded),
                      Alt(<< <<Lit(<<"I","d","e","n","t","i","t","y">>)>>, <<Lit(<<"D","a","t","e">>)>>, <<Lit(<<"G","e","n","d","e","r">>)>>,
                             <<Eol>> >>)>>)>>,
      last |-> ")"],
     [re |-> <<Lit(<<"U+0645","U+0644","U+06A9">>), Cls(ClsColonSpace, 0, Unbounded),
               GrpOpen, ClsLazy(ClsAlphaSpace, 1, Unbounded), GrpClose,
               Look(<<Cls(ClsSpace, 0, Unbounded),
                      Alt(<< <<Lit(<<"U+0634","U+0646","U+0627","U+062E","U+062A","U+06CC">>)>>,
                             <<Lit(<<"U+062A","U+0627","U+0631","U+06CC","U+062E">>)>>,
                             <<Eol>> >>)>>)>>,
      last |-> ")"],
     [re |-> <<Lit(<<"N","a","t","i","o","n","a","l","i","t","y">>), Cls(ClsColonSpace, 0, Unbounded),
               GrpOpen, Cls(ClsAlphaSpace, 1, Unbounded), GrpClose>>,
      last |-> ")"],
     [re |-> <<Alt(<< <<Lit(<<"P","A","K","I","S","T","A","N">>)>>, <<Lit(<<"P","a","k","i","s","t","a","n">>)>>,
                      <<Lit(<<"U+067E","U+0627","U+06A9","U+0633","U+062A","U+0627","U+0646">>)>> >>)>>,
      last |-> ")"] >>

\* (\d{1,2}[-/.]\d{1,2}[-/.]\d{4})
DateGroup ==
  <<GrpOpen, Cls(ClsDigit, 1, 2), Cls(ClsDateSep, 1, 1), Cls(ClsDigit, 1, 2),
    Cls(ClsDateSep, 1, 1), Cls(ClsDigit, 4, 4), GrpClose>>
UrduDate == <<"U+062A","U+0627","U+0631","U+06CC","U+062E">>
DateOf(word) ==
  <<Lit(<<"D","a","t","e">>), Cls(ClsSpace, 1, Unbounded), Lit(<<"o","f">>), Cls(ClsSpace, 1, Unbounded),
    Lit(word)>>
\* the dict date_patterns in insertion order: field, patterns
date_patterns ==
  << [field |-> "date_of_birth",
      patterns |->
        << <<Alt(<< DateOf(<<"B","i","r","t","h">>), <<Lit(<<"B","i","r","t","h">>)>>,
                    <<Lit(UrduDate), Cls(ClsSpace, 1, Unbounded),
                      Lit(<<"U+067E","U+06CC","U+062F","U+0627","U+0626","U+0634">>)>>,
                    <<Lit(<<"D","O","B">>)>> >>),
             Cls(ClsColonSpace, 0, Unbounded)>> \o DateGroup,
           <<Alt(<< <<Lit(<<"B","o","r","n">>)>>, <<Lit(<<"B">>)>> >>),
             Cls(ClsColonSpace, 0, Unbounded)>> \o DateGroup >>],
     [field |-> "date_of_issue",
      patterns |->
        << <<Alt(<< DateOf(<<"I","s","s","u","e">>), <<Lit(<<"I","s","s","u","e">>)>>,
                    <<Lit(UrduDate), Cls(ClsSpace, 1, Unbounded),
                      Lit(<<"U+0627","U+062C","U+0631","U+0627","U+0621">>)>>,
                    <<Lit(<<"D","O","I">>)>> >>),
             Cls(ClsColonSpace, 0, Unbounded)>> \o DateGroup,
           <<Alt(<< <<Lit(<<"I","s","s","u","e","d">>)>>, <<Lit(<<"I">>)>> >>),
             Cls(ClsColonSpace, 0, Unbounded)>> \o DateGroup >>],
     [field |-> "date_of_expiry",
      patterns |->
        << <<Alt(<< DateOf(<<"E","x","p","i","r","y">>), <<Lit(<<"E","x","p","i","r","y">>)>>,
                    <<Lit(UrduDate), Cls(ClsSpace, 1, Unbounded),
                      Lit(<<"U+062E","U+062A","U+0645">>)>>,
                    <<Lit(<<"D","O","E">>)>>,
                    <<Lit(<<"V","a","l","i","d">>), Cls(ClsSpace, 1, Unbounded), Lit(<<"U","n","t","i","l">>)>> >>),
             Cls(ClsColonSpace, 0, Unbounded)>> \o DateGroup,
           <<Alt(<< <<Lit(<<"E","x","p","i","r","e","s">>)>>, <<Lit(<<"E">>)>> >>),
             Cls(ClsColonSpace, 0, Unbounded)>> \o DateGroup >>] >>

\* the loop over cnic_patterns: it stops at the first pattern that matches
RECURSIVE CnicLoop(_, _, _)
CnicLoop(text, result, i) ==
  IF i > Len(cnic_patterns) THEN result
  ELSE LET m == Search(cnic_patterns[i], text, IC) IN
       IF m # NoMatch /\ ~Truthy(result.identity_number)
       THEN LET number == RemoveChars(Group1(text, m), ClsDashSpace) IN
            IF Len(number) = 13
            THEN [result EXCEPT !.identity_number = FormatCnic(number)]
            ELSE result
       ELSE CnicLoop(text, result, i + 1)

\* the loop over name_patterns: it stops at the first match that holds no
\* boilerplate word
RECURSIVE NameLoop(_, _, _)
NameLoop(text, result, i) ==
  IF i > Len(name_patterns) THEN result
  ELSE LET m == Search(name_patterns[i], text, ICML) IN
       IF m # NoMatch /\ ~Truthy(result.name)
       THEN LET name == Strip(Group1(text, m)) IN
            IF ~Matches(BoilerplateName, name, IC)
            THEN [result EXCEPT !.name = FormatName(name)]
            ELSE NameLoop(text, result, i + 1)
       ELSE NameLoop(text, result, i + 1)

RECURSIVE FatherLoop(_, _, _)
FatherLoop(text, result, i) ==
  IF i > Len(father_patterns) THEN result
  ELSE LET m == Search(father_patterns[i], text, IC) IN
       IF m # NoMatch /\ ~Truthy(result.father_name)
       THEN LET father_name == Strip(Group1(text, m)) IN
            IF ~Matches(BoilerplateFather, father_name, IC)
            THEN [result EXCEPT !.father_name = FormatName(father_name)]
            ELSE FatherLoop(text, result, i + 1)
       ELSE FatherLoop(text, result, i + 1)

\* the gender stored as matched and upper-cased
MaleAsMatched == <<"M","A","L","E">>
Male == <<"M","a","l","e">>
Female == <<"F","e","m","a","l","e">>
RECURSIVE GenderLoop(_, _, _)
GenderLoop(text, result, i) ==
  IF i > Len(gender_patterns) THEN result
  ELSE LET m == Search(gender_patterns[i], text, IC) IN
       IF m # NoMatch /\ ~Truthy(result.gender)
       THEN LET gender_text == ToUpper(Group1(text, m)) IN
            IF gender_text \in {<<"M","A","L","E">>, <<"M">>, <<"U+0645","U+0631","U+062F">>}
            THEN [result EXCEPT !.gender = Male]
            ELSE IF gender_text \in {<<"F","E","M","A","L","E">>, <<"F">>, <<"U+0639","U+0648","U+0631","U+062A">>}
                 THEN [result EXCEPT !.gender = Female]
                 ELSE result
       ELSE GenderLoop(text, result, i + 1)

\* the country stored as the matched token
PakistanAsMatched == <<"P","A","K","I","S","T","A","N">>
Pakistan == <<"P","a","k","i","s","t","a","n">>
RECURSIVE CountryLoop(_, _, _)
CountryLoop(text, result, i) ==
  IF i > Len(country_patterns) THEN result
  ELSE LET pattern == country_patterns[i]
           m == Search(pattern.re, text, IC)
       IN IF m # NoMatch /\ ~Truthy(result.country_of_stay)
          THEN IF pattern.last = ")"
               THEN [result EXCEPT !.country_of_stay = Pakistan]
               ELSE IF m[3] = 0 THEN Raised
               ELSE LET country == Strip(Group1(text, m)) IN
                    IF Truthy(country)
                       /\ ~Matches(<<Alt(<< <<Lit(<<"I","D","E","N","T","I","T","Y">>)>>, <<Lit(<<"N","U","M","B","E","R">>)>>,
                                            <<Lit(<<"C","A","R","D">>)>> >>)>>, country, IC)
                    THEN [result EXCEPT !.country_of_stay = FormatName(country)]
                    ELSE result
          ELSE CountryLoop(text, result, i + 1)

\* the loop over the patterns of one date field
RECURSIVE DatePatternLoop(_, _, _, _, _)
DatePatternLoop(text, result, field, patterns, i) ==
  IF i > Len(patterns) THEN result
  ELSE LET m == Search(patterns[i], text, IC) IN
       IF m # NoMatch /\ ~Truthy(result[field])
       THEN [result EXCEPT ![field] = FormatDate(Group1(text, m))]
       ELSE DatePatternLoop(text, result, field, patterns, i + 1)
RECURSIVE DateLoop(_, _, _)
DateLoop(text, result, k) ==
  IF k > Len(date_patterns) THEN result
  ELSE DateLoop(text,
                DatePatternLoop(text, result, date_patterns[k].field,
                                date_patterns[k].patterns, 1),
                k + 1)

ExtractWithPatterns(text, result) ==
  LET r == CountryLoop(text,
             GenderLoop(text,
               FatherLoop(text, NameLoop(text, CnicLoop(text, result, 1), 1), 1), 1), 1)
  IN IF r = Raised THEN Raised ELSE DateLoop(text, r, 1)

\* ------------------------------------------------------------------------
\* _extract_with_positions
\* ------------------------------------------------------------------------
\* ([A-Za-z\s]+)
LettersGroup == <<GrpOpen, Cls(ClsAlphaSpace, 1, Unbounded), GrpClose>>
BlockNamePattern ==
  <<Alt(<< <<Lit(<<"n","a","m","e">>)>>, <<Lit(<<"U+0627","U+0633","U+0645">>)>>, <<Lit(<<"h","o","l","d","e","r">>)>> >>),
    Cls(ClsColonSpace, 0, Unbounded)>> \o LettersGroup
BlockFatherPattern ==
  <<Alt(<< <<Lit(<<"f","a","t","h","e","r">>)>>, <<Lit(<<"U+0648","U+0627","U+0644","U+062F">>)>>,
           <<Lit(<<"s","/","o">>)>>, <<Lit(<<"d","/","o">>)>> >>),
    Cls(ClsColonSpace, 0, Unbounded)>> \o LettersGroup
NameKeywords == {<<"n","a","m","e">>, <<"U+0627","U+0633","U+0645">>, <<"h","o","l","d","e","r">>}
FatherKeywords == {<<"f","a","t","h","e","r">>, <<"U+0648","U+0627","U+0644","U+062F">>, <<"s","/","o">>, <<"d","/","o">>}

\* the guard "i + 1 < len(xs)" one too far
HasNextOffByOne(xs, i) == i <= Len(xs)
\* the guard "i + 1 < len(xs)" of the next-block and next-line branches, for
\* the 1-based position i
HasNext(xs, i) == i + 1 <= Len(xs)

\* the label test storing its candidate without the validity check
BlockCandidateUnchecked(text_blocks, i, pattern, result, field) ==
  LET block == text_blocks[i]
      m == Search(pattern, block, IC)
  IN IF m # NoMatch
     THEN [result EXCEPT ![field] = FormatName(Strip(Group1(block, m)))]
     ELSE IF HasNext(text_blocks, i)
          THEN [result EXCEPT ![field] = FormatName(Strip(text_blocks[i + 1]))]
          ELSE result
\* one label test of the block loop: the candidate of the label's own block
\* when the pattern matches there, else the next block when there is one
BlockCandidate(text_blocks, i, pattern, result, field) ==
  LET block == text_blocks[i]
      m == Search(pattern, block, IC)
  IN IF m # NoMatch
     THEN LET name == Strip(Group1(block, m)) IN
          IF IsValidName(name) THEN [result EXCEPT ![field] = FormatName(name)]
          ELSE result
     ELSE IF HasNext(text_blocks, i)
          THEN IF i + 1 > Len(text_blocks) THEN Raised ELSE
               LET next_block == Strip(text_blocks[i + 1]) IN
               IF IsValidName(next_block)
               THEN [result EXCEPT ![field] = FormatName(next_block)]
               ELSE result
          ELSE result

RECURSIVE PositionLoop(_, _, _)
PositionLoop(text_blocks, result, i) ==
  IF i > Len(text_blocks) THEN result
  ELSE LET block_lower == ToLower(text_blocks[i])
           r1 == IF (\E kw \in NameKeywords : Contains(block_lower, kw))
                    /\ ~Truthy(result.name)
                 THEN BlockCandidate(text_blocks, i, BlockNamePattern, result, "name")
                 ELSE result
           r2 == IF (\E kw \in FatherKeywords : Contains(block_lower, kw))
                    /\ ~Truthy(r1.father_name)
                 THEN BlockCandidate(text_blocks, i, BlockFatherPattern, r1, "father_name")
                 ELSE r1
       IN IF r1 = Raised \/ r2 = Raised THEN Raised
          ELSE PositionLoop(text_blocks, r2, i + 1)
\* the extractor filling a record of its own instead of the one it is given
ExtractWithPositionsFreshRecord(text_blocks, result) ==
  PositionLoop(text_blocks, EmptyRecord, 1)
ExtractWithPositions(text_blocks, result) == PositionLoop(text_blocks, result, 1)

\* ------------------------------------------------------------------------
\* _extract_with_context
\* ------------------------------------------------------------------------
\* name[:\s]+([A-Za-z\s]+) and father[:\s]+([A-Za-z\s]+)
LineNamePattern == <<Lit(<<"n","a","m","e">>), Cls(ClsColonSpace, 1, Unbounded)>> \o LettersGroup
LineFatherPattern == <<Lit(<<"f","a","t","h","e","r">>), Cls(ClsColonSpace, 1, Unbounded)>> \o LettersGroup

\* [line.strip() for line in text.split('\n') if line.strip()]
ContextLines(text) ==
  LET raw == SplitLines(text)
      stripped == [i \in 1..Len(raw) |-> Strip(raw[i])]
  IN SelectSeq(stripped, LAMBDA l : l # <<>>)

LineCandidate(lines, i, pattern, result, field) ==
  LET line == lines[i]
      m == Search(pattern, line, IC)
  IN IF m # NoMatch
     THEN LET name == Strip(Group1(line, m)) IN
          IF IsValidName(name) THEN [result EXCEPT ![field] = FormatName(name)]
          ELSE result
     ELSE IF HasNext(lines, i)
          THEN IF i + 1 > Len(lines) THEN Raised ELSE
               LET next_line == lines[i + 1] IN
               IF IsValidName(next_line)
               THEN [result EXCEPT ![field] = FormatName(next_line)]
               ELSE result
          ELSE result

RECURSIVE ContextLoop(_, _, _)
ContextLoop(lines, result, i) ==
  IF i > Len(lines) THEN result
  ELSE LET line_lower == ToLower(lines[i])
           r1 == IF Contains(line_lower, <<"n","a","m","e">>) /\ ~Contains(line_lower, <<"f","a","t","h","e","r">>)
                    /\ ~Truthy(result.name)
                 THEN LineCandidate(lines, i, LineNamePattern, result, "name")
                 ELSE result
           r2 == IF Contains(line_lower, <<"f","a","t","h","e","r">>) /\ ~Truthy(r1.father_name)
                 THEN LineCandidate(lines, i, LineFatherPattern, r1, "father_name")
                 ELSE r1
       IN IF r1 = Raised \/ r2 = Raised THEN Raised
          ELSE ContextLoop(lines, r2, i + 1)
ExtractWithContext(text, result) == ContextLoop(ContextLines(text), result, 1)

\* ------------------------------------------------------------------------
\* _fallback_extraction
\* ------------------------------------------------------------------------
\* list(dict.fromkeys(xs)): the first occurrences, in order
RECURSIVE Unique(_)
Unique(xs) ==
  IF Len(xs) = 0 THEN <<>>
  ELSE LET init == Unique(SubSeq(xs, 1, Len(xs) - 1))
           x == xs[Len(xs)]
       IN IF \E i \in 1..Len(init) : init[i] = x THEN init ELSE Append(init, x)

date_fields == <<"date_of_birth", "date_of_issue", "date_of_expiry">>

RECURSIVE AssignDates(_, _, _, _)
AssignDates(result, empty_date_fields, unique_dates, i) ==
  IF i > Len(empty_date_fields) THEN result
  ELSE AssignDates(
         IF i <= Len(unique_dates)
         THEN [result EXCEPT ![empty_date_fields[i]] = FormatDate(unique_dates[i])]
         ELSE result,
         empty_date_fields, unique_dates, i + 1)
\* the date tokens handed on with their duplicates
FallbackDatesNoDedup(text, result) ==
  LET date_matches == FindAll(DateGroup, text, NoFlags)
      empty_date_fields == SelectSeq(date_fields, LAMBDA f : ~Truthy(result[f]))
  IN AssignDates(result, empty_date_fields, date_matches, 1)
FallbackDates(text, result) ==
  LET date_matches == FindAll(DateGroup, text, NoFlags)
      unique_dates == Unique(date_matches)
      empty_date_fields == SelectSeq(date_fields, LAMBDA f : ~Truthy(result[f]))
  IN AssignDates(result, empty_date_fields, unique_dates, 1)

NameStoplist ==
  {<<"n","a","m","e">>, <<"f","a","t","h","e","r">>, <<"g","e","n","d","e","r">>, <<"c","o","u","n","t","r","y">>, <<"i","d","e","n","t","i","t","y">>, <<"d","a","t","e">>, <<"i","s","s","u","e">>, <<"b","i","r","t","h">>,
   <<"e","x","p","i","r","y">>, <<"p","a","k","i","s","t","a","n">>, <<"c","a","r","d">>, <<"n","a","t","i","o","n","a","l">>}
\* the name fallback without the test "if not result['name']"
FallbackNameUnguarded(text, result) ==
  LET words == Split(text)
      potential_names ==
        SelectSeq(words, LAMBDA word :
          IsTitle(word) /\ Len(word) > 2 /\ IsAlpha(word)
          /\ ToLower(word) \notin NameStoplist)
  IN IF Len(potential_names) > 0
     THEN [result EXCEPT !.name = JoinSpace(Prefix(potential_names, 3))]
     ELSE result
\* the name fallback without the stoplist test
FallbackNameNoStoplist(text, result) ==
  IF Truthy(result.name) THEN result
  ELSE LET words == Split(text)
           potential_names ==
             SelectSeq(words, LAMBDA word :
               IsTitle(word) /\ Len(word) > 2 /\ IsAlpha(word))
       IN IF Len(potential_names) > 0
          THEN [result EXCEPT !.name = JoinSpace(Prefix(potential_names, 3))]
          ELSE result
FallbackName(text, result) ==
  IF Truthy(result.name) THEN result
  ELSE LET words == Split(text)
           potential_names ==
             SelectSeq(words, LAMBDA word :
               IsTitle(word) /\ Len(word) > 2 /\ IsAlpha(word)
               /\ ToLower(word) \notin NameStoplist)
       IN IF Len(potential_names) > 0
          THEN [result EXCEPT !.name = JoinSpace(Prefix(potential_names, 3))]
          ELSE result

\* the inner loop over j: the title-cased words from start_pos, at most five
\* positions, stopping at the first other word once one is collected
RECURSIVE FatherWords(_, _, _, _)
FatherWords(text_words, j, stop, acc) ==
  IF j >= stop THEN acc
  ELSE LET w == text_words[j + 1] IN
       IF IsTitle(w) /\ IsAlpha(w) /\ Len(w) > 2
       THEN FatherWords(text_words, j + 1, stop, Append(acc, w))
       ELSE IF Len(acc) > 0 THEN acc
            ELSE FatherWords(text_words, j + 1, stop, acc)
\* the outer loop over the 0-based word index i
RECURSIVE FatherScan(_, _, _, _)
FatherScan(text_words, name_words, result, i) ==
  IF i >= Len(text_words) THEN result
  ELSE IF ToLower(text_words[i + 1]) = ToLower(name_words[1])
       THEN LET start_pos == i + Len(name_words)
                stop == IF start_pos + 5 < Len(text_words) THEN start_pos + 5
                        ELSE Len(text_words)
                potential_father_words == FatherWords(text_words, start_pos, stop, <<>>)
            IN IF Len(potential_father_words) > 0
               THEN [result EXCEPT !.father_name =
                                     JoinSpace(Prefix(potential_father_words, 3))]
               ELSE FatherScan(text_words, name_words, result, i + 1)
       ELSE FatherScan(text_words, name_words, result, i + 1)
\* the scan over the text words started one word too late
FallbackFatherSkipsFirstWord(text, result) ==
  IF ~Truthy(result.father_name) /\ Truthy(result.name)
  THEN LET name_words == Split(result.name) IN
       IF Len(name_words) > 0 THEN FatherScan(Split(text), name_words, result, 1)
       ELSE result
  ELSE result
FallbackFather(text, result) ==
  IF ~Truthy(result.father_name) /\ Truthy(result.name)
  THEN LET name_words == Split(result.name) IN
       IF Len(name_words) > 0 THEN FatherScan(Split(text), name_words, result, 0)
       ELSE result
  ELSE result

FallbackExtraction(text, result) ==
  FallbackFather(text, FallbackName(text, FallbackDates(text, result)))

\* ------------------------------------------------------------------------
\* _cleanup_extracted_data
\* ------------------------------------------------------------------------
\* cleanup that stores the bare digits of the identity number
CleanupValueDigitsOnly(key, value) ==
  IF ~Truthy(value) THEN value
  ELSE LET norm == Strip(JoinSpace(Split(value)))
           v1 == IF Len(norm) < 2 \/ Len(norm) > 50 THEN NULL ELSE norm
       IN IF key = "identity_number" /\ Truthy(v1)
          THEN LET numbers_only == KeepChars(v1, Digits) IN
               IF Len(numbers_only) = 13 THEN numbers_only ELSE NULL
          ELSE IF key \in {"name", "father_name"} /\ Truthy(v1)
               THEN (IF IsValidName(v1) THEN v1 ELSE NULL)
               ELSE v1
\* cleanup without the name validation
CleanupValueNoNameCheck(key, value) ==
  IF ~Truthy(value) THEN value
  ELSE LET norm == Strip(JoinSpace(Split(value)))
           v1 == IF Len(norm) < 2 \/ Len(norm) > 50 THEN NULL ELSE norm
       IN IF key = "identity_number" /\ Truthy(v1)
          THEN LET numbers_only == KeepChars(v1, Digits) IN
               IF Len(numbers_only) = 13 THEN FormatCnic(numbers_only) ELSE NULL
          ELSE v1
CleanupValue(key, value) ==
  IF ~Truthy(value) THEN value
  ELSE LET norm == Strip(JoinSpace(Split(value)))
           v1 == IF Len(norm) < 2 \/ Len(norm) > 50 THEN NULL ELSE norm
       IN IF key = "identity_number" /\ Truthy(v1)
          THEN LET numbers_only == KeepChars(v1, Digits) IN
               IF Len(numbers_only) = 13 THEN FormatCnic(numbers_only) ELSE NULL
          ELSE IF key \in {"name", "father_name"} /\ Truthy(v1)
               THEN (IF IsValidName(v1) THEN v1 ELSE NULL)
               ELSE v1
CleanupExtractedData(data) == [key \in DOMAIN data |-> CleanupValue(key, data[key])]

\* ------------------------------------------------------------------------
\* app.py, extract_cnic_data: the confidence score
\* ------------------------------------------------------------------------
ScoredKeys(parsed_data) == {k \in DOMAIN parsed_data : k # "signature_present"}
\* the count of all keys, signature_present included
TotalFieldsAll(parsed_data) == Cardinality(DOMAIN parsed_data)
TotalFields(parsed_data) == Cardinality(ScoredKeys(parsed_data))
\* the filled count without the test "v is not None"
FilledFieldsCountsNone(parsed_data) ==
  Cardinality({k \in ScoredKeys(parsed_data) : parsed_data[k] # <<>>})
FilledFields(parsed_data) ==
  Cardinality({k \in ScoredKeys(parsed_data) :
                 parsed_data[k] # NULL /\ parsed_data[k] # <<>>})
\* round(x, 2) of x = 100 * filled / total, in hundredths; no quotient with
\* total below 32 lies halfway between two hundredths
RoundHundredths(num, den) == (2 * 10000 * num + den) \div (2 * den)
\* the score with the quotient upside down
ConfidenceScoreInverted(parsed_data) ==
  IF TotalFields(parsed_data) > 0 /\ FilledFields(parsed_data) > 0
  THEN RoundHundredths(TotalFields(parsed_data), FilledFields(parsed_data))
  ELSE 0
ConfidenceScore(parsed_data) ==
  IF TotalFields(parsed_data) > 0
  THEN RoundHundredths(FilledFields(parsed_data), TotalFields(parsed_data))
  ELSE 0

\* ------------------------------------------------------------------------
\* Inputs: what the OCR step hands to the parser
\* ------------------------------------------------------------------------
MaxWords == 3
MaxBlocks == 2
MaxDates == 3
MaxTokens == 2

\* the texts of n fragments of a pool, each followed by one space
RECURSIVE TextsOf(_, _)
TextsOf(pool, n) ==
  IF n = 0 THEN {<<>>}
  ELSE {t \o pool[w] \o <<" ">> : t \in TextsOf(pool, n - 1), w \in 1..Len(pool)}

\* labelled and unlabelled names, gender
NamePool ==
  << <<"N","a","m","e",":">>, <<"F","a","t","h","e","l",":">>, <<"J","O","H","N">>, <<"A","l","i">>, <<"D","a","t","e","s">>, <<"A">>, <<"G","e","n","d","e","r",":">>, <<"M","a","l","e","\n">> >>
\* country and identity number
CardPool ==
  << <<"C","o","u","n","t","r","y",":">>, <<"I","n","d","i","a">>, <<"P","A","K","I","S","T","A","N">>, <<"1","2","3","4","5","6","7","8","9","0","1","2","3","4">>, <<"1","2","3","4","5","-","1","2","3","4","5","6","7","-","1">> >>
\* identity numbers in pieces, with and without a label
IdPool == << <<"1","2","3","4","5"," ","1","2","3","4","5","6","7"," ","1">>, <<"I","D",":">>, <<"1","2","3","4","5","6","7","8","9","0","1","2","3">>, <<"C","N","I","C">>, <<"1","2","3","4","5">>, <<"1","2","3","4","5","6","7">> >>
\* gender words in both scripts, with and without a label
GenderPool ==
  << <<"G","e","n","d","e","r",":">>, <<"S","e","x">>, <<"F">>, <<"m">>, <<"f","e","m","a","l","e">>, <<"U+0645","U+0631","U+062F">>,
     <<"U+0639","U+0648","U+0631","U+062A">> >>
\* labels followed by boilerplate words of the card
BoilerPool == << <<"N","a","m","e",":">>, <<"F","a","t","h","e","r",":">>, <<"C","o","m","p","u","t","e","r","i","z","e","d">>, <<"N","a","t","i","o","n","a","l">>, <<"A","l","i">> >>
\* the country token in both scripts and a country label
CountryPool ==
  << <<"p","a","k","i","s","t","a","n">>, <<"U+067E","U+0627","U+06A9","U+0633","U+062A","U+0627","U+0646">>,
     <<"P","a","k","l","s","t","a","n">>, <<"N","a","t","i","o","n","a","l","i","t","y",":">>, <<"L","a","h","o","r","e">> >>
\* date tokens, bare or after a word
DatePool == << <<"0","1","/","0","1","/","1","9","9","0">>, <<"0","2","/","1","3","/","1","9","9","2">>, <<"3",".","3",".","1","9","9","3">> >>
DatePrefixPool == << <<>>, <<"M","a","l","e"," ">> >>
DateFragments ==
  [k \in 1..(Len(DatePool) * Len(DatePrefixPool)) |->
     DatePrefixPool[((k - 1) \div Len(DatePool)) + 1] \o DatePool[((k - 1) % Len(DatePool)) + 1]]

\* Scenario A of the specification and the texts of its shape
ScenarioA == <<"N","a","m","e",":"," ","J","O","H","N"," ","S","M","I","T","H"," ","F","a","t","h","e","r",":"," ","R","O","B","E","R","T"," ","S","M","I","T","H"," ","G","e","n","d","e","r",":"," ","M","a","l","e"," ","1","2","3","4","5","-","1","2","3","4","5","6","7","-","1"," ","0","1","/","0","1","/","1","9","9","0">>
ScenarioNames == {<<"J","O","H","N"," ","S","M","I","T","H">>, <<"R","O","B","E","R","T"," ","S","M","I","T","H">>, <<"A","L","I">>}
ScenarioGenders == {<<"M","a","l","e">>, <<"F","e","m","a","l","e">>}
ScenarioText(n, f, g) ==
  <<"N","a","m","e",":"," ">> \o n \o <<" ","F","a","t","h","e","r",":"," ">> \o f \o <<" ","G","e","n","d","e","r",":"," ">> \o g \o <<" ","1","2","3","4","5","-","1","2","3","4","5","6","7","-","1"," ","0","1","/","0","1","/","1","9","9","0">>
ScenarioTexts ==
  {ScenarioText(n, f, g) : n \in ScenarioNames, f \in ScenarioNames, g \in ScenarioGenders}

\* date tokens behind their labels
LabelledDateTexts ==
  {<<"B","i","r","t","h",":"," ","0","1","/","0","1","/","1","9","9","0">>, <<"I","s","s","u","e",":"," ","3",".","3",".","1","9","9","3"," ">>, <<"D","O","B"," ","0","1","/","0","1","/","1","9","9","0"," ","D","O","E"," ","0","2","/","1","3","/","1","9","9","2">>,
   <<"D","a","t","e"," ","o","f"," ","B","i","r","t","h",":"," ","0","1","/","0","1","/","1","9","9","0"," ","D","a","t","e"," ","o","f"," ","I","s","s","u","e",":"," ","0","1","/","0","1","/","1","9","9","0">>}
\* a label and its value on consecutive lines
LineTexts ==
  {<<"N","a","m","e","\n","A","l","i"," ","K","h","a","n","\n","L","a","h","o","r","e"," ","1","2","3","4","5">>, <<"F","a","t","h","e","r","\n","Z","a","i","d"," ","K","h","a","n","\n","L","a","h","o","r","e"," ","1","2","3","4","5">>,
   <<"N","a","m","e","\n","A","l","i"," ","K","h","a","n">>}
Texts ==
  UNION {TextsOf(NamePool, n) \cup TextsOf(CardPool, n) : n \in 0..MaxWords}
  \cup UNION {TextsOf(IdPool, n) \cup TextsOf(GenderPool, n) \cup TextsOf(CountryPool, n)
                \cup TextsOf(BoilerPool, n) : n \in 0..MaxTokens}
  \cup UNION {TextsOf(DateFragments, n) : n \in 0..MaxDates}
  \cup ScenarioTexts
  \cup LabelledDateTexts
  \cup LineTexts

\* the block lists of the OCR segmentation
LongName == [i \in 1..51 |-> "a"]
BlockPool ==
  << <<"N","a","m","e">>, <<"N","a","m","e",":"," ","O","M","A","R">>, <<"F","a","t","h","e","r">>, <<"Z","a","i","d"," ","K","h","a","n">>, <<"S","/","O",":"," ","B","i","l","a","l","\n">>, <<"1","2","3","4","5">>,
     <<"h","o","l","d","e","r"," ">> \o LongName >>
RECURSIVE BlocksOf(_)
BlocksOf(n) ==
  IF n = 0 THEN {<<>>}
  ELSE {Append(bs, BlockPool[b]) : bs \in BlocksOf(n - 1), b \in 1..Len(BlockPool)}
BlockLists == UNION {BlocksOf(n) : n \in 0..MaxBlocks}
BlockTexts ==
  {<<>>, <<"N","a","m","e",":"," ","J","O","H","N"," ","F","a","t","h","e","r",":"," ","A","L","I">>, <<"G","e","n","d","e","r",":"," ","M","a","l","e"," ","1","2","3","4","5","-","1","2","3","4","5","6","7","-","1"," ","0","1","/","0","1","/","1","9","9","0">>}

\* an OCR result: the full text and the blocks
\* a name that only the blocks label, with the text around its occurrences
PairedInputs ==
  {<<<<"O","m","a","r"," ","Z","a","i","d"," ","K","h","a","n"," ","1","2","3","4","5">>, <<<<"N","a","m","e",":"," ","O","M","A","R">>>> >>,
   <<<<"O","m","a","r"," ","1"," ","2"," ","3"," ","4"," ","5"," ","O","m","a","r"," ","Z","a","i","d">>, <<<<"N","a","m","e",":"," ","O","M","A","R">>>> >>,
   <<<<"O","m","a","r"," ","Z","a","i","d"," ","A","l","i"," ","K","h","a","n"," ","B","i","l","a","l"," ","x">>, <<<<"N","a","m","e",":"," ","O","M","A","R">>>> >>,
   <<<<"O","m","a","r"," ","Z","a","i","d"," ","A","l","i"," ","K","h","a","n">>, <<>> >>}
Inputs == (Texts \X {<<>>}) \cup (BlockTexts \X BlockLists) \cup PairedInputs

\* ------------------------------------------------------------------------
\* The run of extract_cnic_data on one OCR result
\* ------------------------------------------------------------------------
\* raw_text, text_blocks: the OCR result; text, cnic_data: the locals of the
\* parser; total_fields, filled_fields, confidence_score: the locals of the
\* handler; request, ocr, response: the upload, the outcome of the OCR call
\* and the answer of the handler; calls: the components invoked so far;
\* history: the inputs and records of the runs that have returned
VARIABLES raw_text, text_blocks, text, cnic_data, pc,
          total_fields, filled_fields, confidence_score,
          request, ocr, response, calls, history
vars == <<raw_text, text_blocks, text, cnic_data, pc,
          total_fields, filled_fields, confidence_score,
          request, ocr, response, calls, history>>

NoRequest == [has_image |-> FALSE, filename |-> <<>>]
NoResponse == [status |-> 0, success |-> FALSE]

Init ==
  /\ \E in \in Inputs : raw_text = in[1] /\ text_blocks = in[2]
  /\ text = <<>>
  /\ cnic_data = EmptyRecord
  /\ pc = "parse"
  /\ total_fields = 0
  /\ filled_fields = 0
  /\ confidence_score = 0
  /\ request = NoRequest
  /\ ocr = "ok"
  /\ response = NoResponse
  /\ calls = <<>>
  /\ history = <<>>

\* the parser entered without a fresh record: the one of the run before is kept
ParseBeginKeepsRecord ==
  /\ pc = "parse"
  /\ text' = CleanText(raw_text)
  /\ cnic_data' = cnic_data
  /\ pc' = "patterns"
  /\ UNCHANGED <<raw_text, text_blocks, total_fields, filled_fields, confidence_score>>
  /\ calls' = Append(calls, "parser")
  /\ UNCHANGED <<request, ocr, response, history>>
\* _parse_cnic_text_enhanced up to the first strategy
ParseBegin ==
  /\ pc = "parse"
  /\ text' = CleanText(raw_text)
  /\ cnic_data' = EmptyRecord
  /\ pc' = "patterns"
  /\ UNCHANGED <<raw_text, text_blocks, total_fields, filled_fields, confidence_score>>
  /\ calls' = Append(calls, "parser")
  /\ UNCHANGED <<request, ocr, response, history>>

PatternStep ==
  /\ pc = "patterns"
  /\ \E r \in {ExtractWithPatterns(text, cnic_data)} :
       IF r = Raised
       THEN cnic_data' = cnic_data /\ pc' = "raised"
       ELSE cnic_data' = r /\ pc' = "positions"
  /\ UNCHANGED <<raw_text, text_blocks, text, total_fields, filled_fields, confidence_score>>
  /\ UNCHANGED <<request, ocr, response, calls, history>>

PositionStep ==
  /\ pc = "positions"
  /\ \E r \in {ExtractWithPositions(text_blocks, cnic_data)} :
       IF r = Raised
       THEN cnic_data' = cnic_data /\ pc' = "raised"
       ELSE cnic_data' = r /\ pc' = "context"
  /\ UNCHANGED <<raw_text, text_blocks, text, total_fields, filled_fields, confidence_score>>
  /\ UNCHANGED <<request, ocr, response, calls, history>>

ContextStep ==
  /\ pc = "context"
  /\ \E r \in {ExtractWithContext(text, cnic_data)} :
       IF r = Raised
       THEN cnic_data' = cnic_data /\ pc' = "raised"
       ELSE cnic_data' = r /\ pc' = "fallback"
  /\ UNCHANGED <<raw_text, text_blocks, text, total_fields, filled_fields, confidence_score>>
  /\ UNCHANGED <<request, ocr, response, calls, history>>

FallbackStep ==
  /\ pc = "fallback"
  /\ cnic_data' = FallbackExtraction(text, cnic_data)
  /\ pc' = "cleanup"
  /\ UNCHANGED <<raw_text, text_blocks, text, total_fields, filled_fields, confidence_score>>
  /\ UNCHANGED <<request, ocr, response, calls, history>>

CleanupStep ==
  /\ pc = "cleanup"
  /\ cnic_data' = CleanupExtractedData(cnic_data)
  /\ pc' = "score"
  /\ UNCHANGED <<raw_text, text_blocks, text, total_fields, filled_fields, confidence_score>>
  /\ UNCHANGED <<request, ocr, response, calls, history>>

ScoreStep ==
  /\ pc = "score"
  /\ total_fields' = TotalFields(cnic_data)
  /\ filled_fields' = FilledFields(cnic_data)
  /\ confidence_score' = ConfidenceScore(cnic_data)
  /\ pc' = "done"
  /\ UNCHANGED <<raw_text, text_blocks, text, cnic_data>>
  /\ calls' = Append(calls, "scorer")
  /\ UNCHANGED <<request, ocr, response, history>>

Next ==
  \/ ParseBegin
  \/ PatternStep
  \/ PositionStep
  \/ ContextStep
  \/ FallbackStep
  \/ CleanupStep
  \/ ScoreStep

Spec == Init /\ [][Next]_vars


\* ------------------------------------------------------------------------
\* The scorer on its own: any parsed_data mapping
\* ------------------------------------------------------------------------
ScorerKeys == {"name", "gender", "date_of_birth", "signature_present"}
ScorerValues == {NULL, <<>>, <<"A","b">>}
ScorerRecords == UNION {[K -> ScorerValues] : K \in SUBSET ScorerKeys}

InitScorer ==
  /\ raw_text = <<>>
  /\ text_blocks = <<>>
  /\ text = <<>>
  /\ cnic_data \in ScorerRecords
  /\ pc = "score"
  /\ total_fields = 0
  /\ filled_fields = 0
  /\ confidence_score = 0
  /\ request = NoRequest
  /\ ocr = "ok"
  /\ response = NoResponse
  /\ calls = <<>>
  /\ history = <<>>

NextScorer == ScoreStep

SpecScorer == InitScorer /\ [][NextScorer]_vars

\* ------------------------------------------------------------------------
\* Properties
\* ------------------------------------------------------------------------
Strategies == {"patterns", "positions", "context", "fallback"}
\* the record the four strategies hand to the cleanup pass
PreCleanup ==
  FallbackExtraction(text,
    ExtractWithContext(text,
      ExtractWithPositions(text_blocks, ExtractWithPatterns(text, EmptyRecord))))

\* C1: in every strategy step (pattern, position, context, fallback), a field
\* that is non-null before the step has the same value after it: a strategy
\* writes only fields that are null.
C1_FieldMonotonicity ==
  [][(pc \in Strategies) =>
       (\A f \in FieldSet : cnic_data[f] # NULL => cnic_data'[f] = cnic_data[f])]_vars
\* the position step has run over a block with a name label and a valid
\* candidate, and the name of the pattern step is still there
C1_Witness ==
  /\ pc = "context"
  /\ cnic_data.name = <<"J","o","h","n">>
  /\ \E i \in 1..Len(text_blocks) : text_blocks[i] = <<"N","a","m","e",":"," ","O","M","A","R">>

\* C2: the cleanup pass leaves every field as it was or makes it null; it
\* never stores a different non-null value and never fills a null field.
C2_CleanupKeepsOrNulls ==
  [][(pc = "cleanup") =>
       (\A f \in FieldSet : cnic_data'[f] = cnic_data[f] \/ cnic_data'[f] = NULL)]_vars
\* cleanup has nulled a name that fails validation and kept another field
C2_Witness ==
  /\ pc = "score"
  /\ PreCleanup.name = <<"D","a","t","e","s">>
  /\ cnic_data.name = NULL
  /\ cnic_data.gender = Male
  /\ PreCleanup.gender = Male

\* maximal runs of digits
DigitRunStart(t, i) == t[i] \in Digits /\ (i = 1 \/ t[i - 1] \notin Digits)
MaximalDigitRun(t, i) == IF DigitRunStart(t, i) THEN RunLen(t, i, Digits, Unbounded, NoFlags) ELSE 0
HasDigitRunOf(t, n) == \E i \in 1..Len(t) : MaximalDigitRun(t, i) = n
\* a number of its own in 5-7-1 grouping
HasGroupedNumber(t) ==
  \E i \in 1..(Len(t) - 14) :
    /\ MaximalDigitRun(t, i) = 5
    /\ t[i + 5] \in ClsDashSpace
    /\ MaximalDigitRun(t, i + 6) = 7
    /\ t[i + 13] \in ClsDashSpace
    /\ MaximalDigitRun(t, i + 14) = 1

\* C3: when the text holds a run of 14 consecutive digits and no separate
\* 13-digit or 5-7-1 grouped number, identity_number is null in the final
\* record.
C3_Rejects14Digits ==
  (pc = "done" /\ HasDigitRunOf(raw_text, 14)
   /\ ~HasDigitRunOf(raw_text, 13) /\ ~HasGroupedNumber(raw_text))
  => cnic_data.identity_number = NULL

\* the words of the text that are date tokens D[D] sep M[M] sep YYYY
IsDateToken(w) == MatchAt(DateGroup \o <<Eol>>, w, 1, 0, 0, NoFlags) # NoMatch
DateTokens(t) == Unique(SelectSeq(Split(t), IsDateToken))
DateLabelWords ==
  {<<"b","i","r","t","h">>, <<"d","o","b">>, <<"b","o","r","n">>, <<"i","s","s","u","e">>, <<"d","o","i">>, <<"e","x","p","i","r">>, <<"d","o","e">>, <<"v","a","l","i","d">>,
   UrduDate}
HasDateLabel(t) == \E w \in DateLabelWords : Contains(ToLower(t), w)

\* C4: when the text holds exactly three distinct date tokens and none of the
\* birth, issue and expiry label words, the final record has the first token
\* as date_of_birth, the second as date_of_issue and the third as
\* date_of_expiry, each date-formatted.
C4_ThreeDatesInOrder ==
  (pc = "done" /\ Len(DateTokens(raw_text)) = 3 /\ ~HasDateLabel(raw_text))
  => /\ cnic_data.date_of_birth = FormatDate(DateTokens(raw_text)[1])
     /\ cnic_data.date_of_issue = FormatDate(DateTokens(raw_text)[2])
     /\ cnic_data.date_of_expiry = FormatDate(DateTokens(raw_text)[3])

\* the first country pattern that matches the text, 0 when none does
FirstCountryMatch(t) ==
  LET hits == {i \in 1..Len(country_patterns) : Matches(country_patterns[i].re, t, IC)}
  IN IF hits = {} THEN 0 ELSE SetMin(hits)
CountryCapture(t, i) == Strip(Group1(t, Search(country_patterns[i].re, t, IC)))
CountryAccepted(x) ==
  /\ x # <<>>
  /\ ~Contains(ToUpper(x), <<"I","D","E","N","T","I","T","Y">>)
  /\ ~Contains(ToUpper(x), <<"N","U","M","B","E","R">>)
  /\ ~Contains(ToUpper(x), <<"C","A","R","D">>)

\* C5: after the pattern extractor, when a label pattern (Country of Stay,
\* Country, Nationality, the Urdu label) is the first to match and its
\* captured value X holds none of IDENTITY, NUMBER, CARD, country_of_stay
\* is the name-formatted X; the constant "Pakistan" is stored only when the
\* bare-token pattern is the one that matched.
C5_CountryLabelFirst ==
  pc = "positions" =>
    LET i == FirstCountryMatch(text) IN
    /\ (i \in 1..3 /\ CountryAccepted(CountryCapture(text, i)))
         => cnic_data.country_of_stay = FormatName(CountryCapture(text, i))
    /\ i = 4 => cnic_data.country_of_stay = Pakistan
    /\ i = 0 => cnic_data.country_of_stay = NULL
    /\ cnic_data.country_of_stay = Pakistan
         => (i = 4 \/ (i \in 1..3 /\ FormatName(CountryCapture(text, i)) = Pakistan))

\* C6: the text of Scenario A gives name "John Smith", father_name "Robert
\* Smith", gender "Male", identity_number "12345-1234567-1" and date_of_birth
\* "01/01/1990"; every text of that shape gives the title-cased names, the
\* gender, the number and the date.
C6_ScenarioA ==
  pc = "done" =>
    /\ raw_text = ScenarioA =>
         /\ cnic_data.name = <<"J","o","h","n"," ","S","m","i","t","h">>
         /\ cnic_data.father_name = <<"R","o","b","e","r","t"," ","S","m","i","t","h">>
         /\ cnic_data.gender = <<"M","a","l","e">>
         /\ cnic_data.identity_number = <<"1","2","3","4","5","-","1","2","3","4","5","6","7","-","1">>
         /\ cnic_data.date_of_birth = <<"0","1","/","0","1","/","1","9","9","0">>
    /\ \A n \in ScenarioNames, f \in ScenarioNames, g \in ScenarioGenders :
         (raw_text = ScenarioText(n, f, g) /\ text_blocks = <<>>) =>
           /\ cnic_data.name = Title(n)
           /\ cnic_data.father_name = Title(f)
           /\ cnic_data.gender = g
           /\ cnic_data.identity_number = <<"1","2","3","4","5","-","1","2","3","4","5","6","7","-","1">>
           /\ cnic_data.date_of_birth = <<"0","1","/","0","1","/","1","9","9","0">>
C6_Witness ==
  /\ pc = "done"
  /\ raw_text = ScenarioA
  /\ text_blocks = <<>>
  /\ cnic_data.father_name = <<"R","o","b","e","r","t"," ","S","m","i","t","h">>

\* C7: the run on the empty text with no blocks ends with all 8 fields null,
\* confidence 0 and filled count 0.
C7_EmptyInput ==
  (pc = "done" /\ raw_text = <<>> /\ text_blocks = <<>>)
  => /\ \A f \in FieldSet : cnic_data[f] = NULL
     /\ DOMAIN cnic_data = FieldSet
     /\ confidence_score = 0
     /\ filled_fields = 0
C7_Witness ==
  /\ pc = "done"
  /\ raw_text = <<>>
  /\ text_blocks = <<>>
  /\ total_fields = 8

\* C8: the score of a pipeline record lies between 0 and 100 (in hundredths:
\* 0 and 10000), and it is 0 exactly when every scored field is null.
C8_ConfidenceBound ==
  pc = "done" =>
    /\ confidence_score >= 0
    /\ confidence_score <= 10000
    /\ confidence_score = 0
         <=> \A k \in DOMAIN cnic_data \ {"signature_present"} : cnic_data[k] = NULL
C8_Witness ==
  /\ pc = "done"
  /\ confidence_score > 0
  /\ confidence_score < 10000
  /\ \E k \in FieldSet : cnic_data[k] = NULL

\* C9: total counts the keys other than signature_present, filled counts
\* those of them whose value is neither null nor empty, the score is
\* 100 * filled / total rounded to hundredths, or 0 when total is 0; a
\* signature_present entry, whatever its value, changes none of them, and
\* filled <= total.
C9_ConfidenceFormula ==
  pc = "done" =>
    LET keys == DOMAIN cnic_data \ {"signature_present"}
        total == Cardinality(keys)
        filled == Cardinality({k \in keys : cnic_data[k] # NULL /\ cnic_data[k] # <<>>})
        without == [k \in keys |-> cnic_data[k]]
        withSig(v) == [k \in keys \cup {"signature_present"} |->
                      IF k = "signature_present" THEN v ELSE cnic_data[k]]
        diff == confidence_score * total - 10000 * filled
    IN /\ total_fields = total
       /\ filled_fields = filled
       /\ filled_fields <= total_fields
       /\ total = 0 => confidence_score = 0
       /\ total > 0 => 2 * diff <= total /\ 2 * diff > -total
       /\ \A r \in {without} \cup {withSig(v) : v \in ScorerValues} :
            /\ TotalFields(r) = total_fields
            /\ FilledFields(r) = filled_fields
            /\ ConfidenceScore(r) = confidence_score
C9_Witness ==
  /\ pc = "done"
  /\ "signature_present" \in DOMAIN cnic_data
  /\ cnic_data["signature_present"] = <<"A","b">>
  /\ \E k \in DOMAIN cnic_data : cnic_data[k] = <<>>
  /\ total_fields = 3
  /\ filled_fields = 1
  /\ confidence_score = 3333

\* a value as ' '.join(value.split()) leaves it
WhitespaceNormalised(v) ==
  /\ \A i \in 1..Len(v) : IsSpaceChar(v[i]) => v[i] = " "
  /\ \A i \in 1..Len(v) : v[i] = " " => (i > 1 /\ i < Len(v) /\ v[i + 1] # " ")
NameStopWords ==
  {<<"P","A","K","I","S","T","A","N">>, <<"I","D","E","N","T","I","T","Y">>, <<"C","A","R","D">>, <<"R","E","P","U","B","L","I","C">>, <<"G","O","V","E","R","N","M","E","N","T">>, <<"N","A","T","I","O","N","A","L">>,
   <<"C","O","M","P","U","T","E","R","I","Z","E","D">>, <<"D","A","T","E">>, <<"B","I","R","T","H">>, <<"I","S","S","U","E">>, <<"E","X","P","I","R","Y">>, <<"G","E","N","D","E","R">>, <<"C","O","U","N","T","R","Y">>}

\* C10: in the record the pipeline returns, every non-null value is
\* whitespace-normalised and 2 to 50 characters long, and a non-null name or
\* father_name passes the name-validity predicate, so it holds no boilerplate
\* token and no date, birth, issue, expiry, gender or country keyword.
C10_ValidatedRecord ==
  pc \in {"score", "done"} =>
    /\ \A f \in FieldSet :
         cnic_data[f] # NULL =>
           /\ WhitespaceNormalised(cnic_data[f])
           /\ Len(cnic_data[f]) >= 2
           /\ Len(cnic_data[f]) <= 50
    /\ \A f \in {"name", "father_name"} :
         cnic_data[f] # NULL =>
           /\ IsValidName(cnic_data[f])
           /\ \A w \in NameStopWords : ~Contains(ToUpper(cnic_data[f]), w)
\* cleanup has dropped a one-character name and kept another field
C10_Witness ==
  /\ pc = "done"
  /\ Len(PreCleanup.name) = 1
  /\ PreCleanup.name # NULL
  /\ cnic_data.name = NULL
  /\ \E f \in FieldSet : cnic_data[f] # NULL

\* DDDDD-DDDDDDD-D: 15 characters, dashes at positions 6 and 14
IsCnicFormat(v) ==
  /\ Len(v) = 15
  /\ v[6] = "-"
  /\ v[14] = "-"
  /\ \A i \in (1..15) \ {6, 14} : v[i] \in Digits
\* the first identity-number pattern that matches the text, 0 when none does
FirstCnicMatch(t) ==
  LET hits == {i \in 1..Len(cnic_patterns) : Matches(cnic_patterns[i], t, IC)}
  IN IF hits = {} THEN 0 ELSE SetMin(hits)
CnicCandidate(t, i) ==
  RemoveChars(Group1(t, Search(cnic_patterns[i], t, IC)), ClsDashSpace)
AfterPatterns == {"positions", "context", "fallback", "cleanup", "score", "done"}

\* C11: after the pattern extractor and in the final record a non-null
\* identity_number is 15 characters DDDDD-DDDDDDD-D; after the pattern
\* extractor it holds the 13 digits of the first matching candidate, and it is
\* null when nothing matches or the candidate is not 13 digits.
C11_IdentityFormat ==
  /\ (pc \in AfterPatterns /\ cnic_data.identity_number # NULL)
       => IsCnicFormat(cnic_data.identity_number)
  /\ pc = "positions" =>
       LET i == FirstCnicMatch(text) IN
       IF i = 0 THEN cnic_data.identity_number = NULL
       ELSE IF Len(CnicCandidate(text, i)) # 13 THEN cnic_data.identity_number = NULL
            ELSE RemoveChars(cnic_data.identity_number, {"-"}) = CnicCandidate(text, i)
\* a number written with spaces is stored with dashes
C11_Witness ==
  /\ pc = "done"
  /\ raw_text = <<"1","2","3","4","5"," ","1","2","3","4","5","6","7"," ","1"," ">>
  /\ text_blocks = <<>>
  /\ cnic_data.identity_number = <<"1","2","3","4","5","-","1","2","3","4","5","6","7","-","1">>

\* ------------------------------------------------------------------------
\* The identity number on its own: format, then cleanup
\* ------------------------------------------------------------------------
MaxVaried == 1
BaseDigits == {<<"1","2","3","4","5","6","7","8","9","0","1","2","3">>, <<"0","0","0","0","0","0","0","0","0","0","0","0","0">>, <<"9","8","7","6","5","4","3","2","1","0","9","8","7">>}
\* the 13-digit strings that differ from the string base in the places P
VariedAt(base, P) ==
  {[i \in 1..Len(base) |-> IF i \in P THEN f[i] ELSE base[i]] : f \in [P -> Digits]}
ThirteenDigitStrings ==
  UNION {VariedAt(base, P) :
           base \in BaseDigits,
           P \in {Q \in SUBSET (1..13) : Cardinality(Q) <= MaxVaried}}

InitCnic ==
  /\ raw_text \in ThirteenDigitStrings
  /\ text_blocks = <<>>
  /\ text = <<>>
  /\ cnic_data = EmptyRecord
  /\ pc = "format"
  /\ total_fields = 0
  /\ filled_fields = 0
  /\ confidence_score = 0
  /\ request = NoRequest
  /\ ocr = "ok"
  /\ response = NoResponse
  /\ calls = <<>>
  /\ history = <<>>

\* the body of the cnic loop on a matched candidate
CnicFormatStep ==
  /\ pc = "format"
  /\ LET number == RemoveChars(raw_text, ClsDashSpace) IN
     cnic_data' = IF Len(number) = 13
                  THEN [cnic_data EXCEPT !.identity_number = FormatCnic(number)]
                  ELSE cnic_data
  /\ pc' = "cleanup"
  /\ UNCHANGED <<raw_text, text_blocks, text, total_fields, filled_fields,
                 confidence_score, request, ocr, response, calls, history>>

NextCnic ==
  \/ CnicFormatStep
  \/ CleanupStep

SpecCnic == InitCnic /\ [][NextCnic]_vars

\* C12: a 13-digit string d is formatted as d[0..4]-d[5..11]-d[12], removing
\* the dashes gives d again, and cleanup returns the formatted string as it
\* was.
C12_RoundTrip ==
  pc \in {"cleanup", "score"} =>
    /\ cnic_data.identity_number =
         SubSeq(raw_text, 1, 5) \o <<"-">> \o SubSeq(raw_text, 6, 12) \o <<"-">>
           \o SubSeq(raw_text, 13, 13)
    /\ RemoveChars(cnic_data.identity_number, {"-"}) = raw_text
\* cleanup has reformatted a number whose last two digits differ
C12_Witness ==
  /\ pc = "score"
  /\ raw_text \notin BaseDigits
  /\ raw_text[12] # raw_text[13]
  /\ raw_text[5] # raw_text[6]
  /\ cnic_data.identity_number # NULL

\* ------------------------------------------------------------------------
\* Runs of the pipeline one after the other on the same service object
\* ------------------------------------------------------------------------
MaxRuns == 3
RunInputs ==
  { <<ScenarioA, <<>> >>,
    <<<<"A","l","i"," ","N","a","m","e",":"," ","A"," ">>, <<>> >>,
    <<<<"1","2","3","4","5","6","7","8","9","0","1","2","3","4"," ">>, <<>> >>,
    << <<>>, <<<<"N","a","m","e",":"," ","O","M","A","R">>>> >> }

InitRuns ==
  /\ \E in \in RunInputs : raw_text = in[1] /\ text_blocks = in[2]
  /\ text = <<>>
  /\ cnic_data = EmptyRecord
  /\ pc = "parse"
  /\ total_fields = 0
  /\ filled_fields = 0
  /\ confidence_score = 0
  /\ request = NoRequest
  /\ ocr = "ok"
  /\ response = NoResponse
  /\ calls = <<>>
  /\ history = <<>>

\* the caller keeps the returned record and calls extract_cnic_data again;
\* nothing of the service object is reset between the calls
NextRun ==
  /\ pc = "done"
  /\ Len(history) + 1 < MaxRuns
  /\ history' = Append(history, [raw_text |-> raw_text, text_blocks |-> text_blocks,
                                 record |-> cnic_data])
  /\ \E in \in RunInputs : raw_text' = in[1] /\ text_blocks' = in[2]
  /\ pc' = "parse"
  /\ UNCHANGED <<text, cnic_data, total_fields, filled_fields, confidence_score,
                 request, ocr, response, calls>>

NextRuns ==
  \/ ParseBegin
  \/ PatternStep
  \/ PositionStep
  \/ ContextStep
  \/ FallbackStep
  \/ CleanupStep
  \/ ScoreStep
  \/ NextRun

SpecRuns == InitRuns /\ [][NextRuns]_vars

\* C13: a run returns the record that every earlier run on the same text and
\* blocks returned, whatever runs came in between, and no step of a run
\* changes the input text or the blocks.
C13_Deterministic ==
  /\ [](pc = "done" =>
          \A k \in 1..Len(history) :
            (history[k].raw_text = raw_text /\ history[k].text_blocks = text_blocks)
              => history[k].record = cnic_data)
  /\ [][(pc # "done") => (raw_text' = raw_text /\ text_blocks' = text_blocks)]_vars
\* the third run repeats the input of the first after a run on another input
C13_Witness ==
  /\ pc = "done"
  /\ Len(history) = 2
  /\ history[1].raw_text = raw_text
  /\ history[1].text_blocks = text_blocks
  /\ history[2].raw_text # raw_text
  /\ history[2].record # cnic_data
  /\ \E f \in FieldSet : cnic_data[f] # NULL

\* C14: no run ends by an exception: every state of a run is one of the
\* steps of the parser or its return, with a record of the 8 fields; a label in
\* the last block or last line with nothing after it is skipped; after the
\* pattern extractor every field holds what its own patterns give on the
\* text, whether or not the candidates of the other fields were rejected.
C14_NeverRaises ==
  /\ pc # "raised"
  /\ pc \in {"parse", "patterns", "positions", "context", "fallback", "cleanup",
             "score", "done"}
  /\ pc = "done" => DOMAIN cnic_data = FieldSet
  /\ pc = "positions" =>
       /\ cnic_data.identity_number = CnicLoop(text, EmptyRecord, 1).identity_number
       /\ cnic_data.name = NameLoop(text, EmptyRecord, 1).name
       /\ cnic_data.father_name = FatherLoop(text, EmptyRecord, 1).father_name
       /\ cnic_data.gender = GenderLoop(text, EmptyRecord, 1).gender
       /\ cnic_data.country_of_stay = CountryLoop(text, EmptyRecord, 1).country_of_stay
       /\ \A f \in {"date_of_birth", "date_of_issue", "date_of_expiry"} :
            cnic_data[f] = DateLoop(text, EmptyRecord, 1)[f]
\* the run has returned although the last block holds a name label and
\* nothing follows it
C14_Witness ==
  /\ pc = "done"
  /\ Len(text_blocks) = 2
  /\ text_blocks[2] = <<"N","a","m","e">>
  /\ cnic_data.name = NULL
  /\ cnic_data.father_name # NULL

\* C15: in every state of a run the record has exactly the 8 keys, and the
\* scorer counts 8 fields for the record the pipeline returns.
C15_FixedKeys ==
  /\ DOMAIN cnic_data =
       {"identity_number", "name", "father_name", "gender", "country_of_stay",
        "date_of_birth", "date_of_issue", "date_of_expiry"}
  /\ pc = "done" => total_fields = 8
\* a returned record with filled and null fields, counted as 8
C15_Witness ==
  /\ pc = "done"
  /\ total_fields = 8
  /\ filled_fields >= 4
  /\ filled_fields < 8

\* the first gender pattern that matches the text, 0 when none does
FirstGenderMatch(t) ==
  LET hits == {i \in 1..Len(gender_patterns) : Matches(gender_patterns[i], t, IC)}
  IN IF hits = {} THEN 0 ELSE SetMin(hits)
GenderCapture(t, i) == ToUpper(Group1(t, Search(gender_patterns[i], t, IC)))
MaleWords == {<<"M","A","L","E">>, <<"M">>, <<"U+0645","U+0631","U+062F">>}
FemaleWords == {<<"F","E","M","A","L","E">>, <<"F">>, <<"U+0639","U+0648","U+0631","U+062A">>}

\* C16: from the pattern extractor to the returned record gender is null,
\* "Male" or "Female": "Male" when the matched word is Male, M or the Urdu
\* male word in any letter case, "Female" when it is Female, F or the Urdu
\* female word, null when no gender pattern matches.
C16_GenderValues ==
  pc \in AfterPatterns =>
    /\ cnic_data.gender \in {NULL, <<"M","a","l","e">>, <<"F","e","m","a","l","e">>}
    /\ LET i == FirstGenderMatch(text) IN
       IF i = 0 THEN cnic_data.gender = NULL
       ELSE /\ GenderCapture(text, i) \in MaleWords => cnic_data.gender = <<"M","a","l","e">>
            /\ GenderCapture(text, i) \in FemaleWords => cnic_data.gender = <<"F","e","m","a","l","e">>
            /\ GenderCapture(text, i) \in MaleWords \cup FemaleWords
\* a lower-case m after the label is returned as "Male"
C16_Witness ==
  /\ pc = "done"
  /\ raw_text = <<"G","e","n","d","e","r",":"," ","m"," ">>
  /\ cnic_data.gender = <<"M","a","l","e">>

UrduPakistan == <<"U+067E","U+0627","U+06A9","U+0633","U+062A","U+0627","U+0646">>
UrduCountry == <<"U+0645","U+0644","U+06A9">>
HasPakistanToken(t) == Contains(ToLower(t), <<"p","a","k","i","s","t","a","n">>) \/ Contains(t, UrduPakistan)
HasCountryLabel(t) ==
  \/ Contains(ToLower(t), <<"c","o","u","n","t","r","y">>)
  \/ Contains(ToLower(t), <<"n","a","t","i","o","n","a","l","i","t","y">>)
  \/ Contains(t, UrduCountry)

\* C17 as stated, over the text the OCR step delivers: with the token and no
\* label country_of_stay is "Pakistan", with neither it is null.
C17_OverOcrText ==
  pc = "done" =>
    /\ (HasPakistanToken(raw_text) /\ ~HasCountryLabel(raw_text))
         => cnic_data.country_of_stay = <<"P","a","k","i","s","t","a","n">>
    /\ (~HasPakistanToken(raw_text) /\ ~HasCountryLabel(raw_text))
         => cnic_data.country_of_stay = NULL

\* C17 (amended): when the text after the OCR-mistake replacements holds the token Pakistan in any
\* letter case, or its Urdu form, and no country label, the returned
\* country_of_stay is "Pakistan"; when it holds neither the token nor a
\* label, country_of_stay is null.
C17_PakistanToken ==
  pc = "done" =>
    /\ (HasPakistanToken(text) /\ ~HasCountryLabel(text))
         => cnic_data.country_of_stay = <<"P","a","k","i","s","t","a","n">>
    /\ (~HasPakistanToken(text) /\ ~HasCountryLabel(text))
         => cnic_data.country_of_stay = NULL
\* the misread token is repaired and gives "Pakistan"
C17_Witness ==
  /\ pc = "done"
  /\ raw_text = <<"P","a","k","l","s","t","a","n"," ">>
  /\ text = <<"P","a","k","i","s","t","a","n"," ">>
  /\ cnic_data.country_of_stay = <<"P","a","k","i","s","t","a","n">>

\* C18: the position step leaves the record as it is when there are no
\* blocks, and for any blocks it leaves identity_number, gender,
\* country_of_stay and the three dates as they are.
C18_PositionFrame ==
  [][(pc = "positions") =>
       /\ (text_blocks = <<>> => cnic_data' = cnic_data)
       /\ \A f \in FieldSet \ {"name", "father_name"} : cnic_data'[f] = cnic_data[f]]_vars
\* the position step has written a name beside fields of the pattern step
C18_Witness ==
  /\ pc = "context"
  /\ text_blocks # <<>>
  /\ cnic_data.name # NULL
  /\ cnic_data.gender # NULL
  /\ cnic_data.identity_number # NULL
  /\ ExtractWithPatterns(text, EmptyRecord).name = NULL

\* ---------------------------------------------------------------------
\* The /cnic_ocr handler: upload validation, OCR, parser, scorer, response
\* ---------------------------------------------------------------------

allowed_extensions == {<<"p","n","g">>, <<"j","p","g">>, <<"j","p","e","g">>, <<"g","i","f">>, <<"b","m","p">>, <<"t","i","f","f">>}

\* file.filename.rsplit('.', 1)[1].lower() if '.' in file.filename else ''
FileExtension(filename) ==
  LET dots == {i \in 1..Len(filename) : filename[i] = "."}
  IN IF dots = {} THEN <<>>
     ELSE ToLower(SubSeq(filename, SetMax(dots) + 1, Len(filename)))

\* the validator with the extension test forgotten
ValidateImageFileNameOnly(filename) == filename # <<>>
ValidateImageFile(filename) ==
  IF filename = <<>> THEN FALSE
  ELSE FileExtension(filename) \in allowed_extensions

Filenames ==
  {<<>>, <<"a",".","p","n","g">>, <<"a",".","P","N","G">>, <<"a",".","t","x","t">>, <<"p","n","g">>, <<"a",".">>, <<"a",".","p","n","g",".","e","x","e">>, <<"x",".","t","a","r",".","j","p","e","g">>,
   <<".","b","m","p">>, <<"a",".","J","p","G">>, <<"a",".","t","i","f","f">>, <<"a",".","g","i","f">>, <<"j","p","g",".">>, <<"a",".","p","n","g","x">>}
Requests ==
  {NoRequest} \cup {[has_image |-> TRUE, filename |-> fn] : fn \in Filenames}
OcrOutcomes == {"ok", "no_client", "provider_error"}

BadRequest == [status |-> 400, success |-> FALSE]
ServerError == [status |-> 500, success |-> FALSE]
Ok200 == [status |-> 200, success |-> TRUE]

InitHttp ==
  /\ request \in Requests
  /\ ocr \in OcrOutcomes
  /\ raw_text = <<>>
  /\ text_blocks = <<>>
  /\ text = <<>>
  /\ cnic_data = EmptyRecord
  /\ pc = "request"
  /\ total_fields = 0
  /\ filled_fields = 0
  /\ confidence_score = 0
  /\ response = NoResponse
  /\ calls = <<>>
  /\ history = <<>>

\* the two early returns of the handler
ValidateStep ==
  /\ pc = "request"
  /\ IF ~request.has_image
       THEN response' = BadRequest /\ pc' = "responded"
       ELSE IF ~ValidateImageFile(request.filename)
              THEN response' = BadRequest /\ pc' = "responded"
              ELSE response' = response /\ pc' = "ocr"
  /\ UNCHANGED <<raw_text, text_blocks, text, cnic_data, total_fields, filled_fields,
                 confidence_score, request, ocr, calls, history>>

\* text extraction that hands empty text to the parser when it fails
OcrStepSwallowsError ==
  /\ pc = "ocr"
  /\ calls' = Append(calls, "ocr")
  /\ IF ocr = "ok"
       THEN \E in \in RunInputs : raw_text' = in[1] /\ text_blocks' = in[2]
       ELSE raw_text' = <<>> /\ text_blocks' = <<>>
  /\ pc' = "parse"
  /\ UNCHANGED <<text, cnic_data, total_fields, filled_fields, confidence_score,
                 request, ocr, response, history>>
\* vision_service.extract_cnic_data up to the call of the parser: the text
\* extraction returns the text and the blocks, or raises and is re-raised
OcrStep ==
  /\ pc = "ocr"
  /\ calls' = Append(calls, "ocr")
  /\ IF ocr = "ok"
       THEN /\ \E in \in RunInputs : raw_text' = in[1] /\ text_blocks' = in[2]
            /\ pc' = "parse"
       ELSE /\ UNCHANGED <<raw_text, text_blocks>>
            /\ pc' = "raised"
  /\ UNCHANGED <<text, cnic_data, total_fields, filled_fields, confidence_score,
                 request, ocr, response, history>>

Respond200 ==
  /\ pc = "done"
  /\ response' = Ok200
  /\ pc' = "responded"
  /\ UNCHANGED <<raw_text, text_blocks, text, cnic_data, total_fields, filled_fields,
                 confidence_score, request, ocr, calls, history>>

\* except Exception: error_response(..., 500)
Respond500 ==
  /\ pc = "raised"
  /\ response' = ServerError
  /\ pc' = "responded"
  /\ UNCHANGED <<raw_text, text_blocks, text, cnic_data, total_fields, filled_fields,
                 confidence_score, request, ocr, calls, history>>

NextHttp ==
  \/ ValidateStep
  \/ OcrStep
  \/ ParseBegin
  \/ PatternStep
  \/ PositionStep
  \/ ContextStep
  \/ FallbackStep
  \/ CleanupStep
  \/ ScoreStep
  \/ Respond200
  \/ Respond500

SpecHttp == InitHttp /\ [][NextHttp]_vars

\* the upload that the specification calls invalid: no image part, an empty
\* name, or the lower-cased text after the last dot not an allowed extension
LastDot(fn) == SetMax({0} \cup {i \in 1..Len(fn) : fn[i] = "."})
TextAfterLastDot(fn) ==
  IF LastDot(fn) = 0 THEN <<>> ELSE [i \in 1..(Len(fn) - LastDot(fn)) |-> fn[LastDot(fn) + i]]
InvalidUpload ==
  \/ ~request.has_image
  \/ request.filename = <<>>
  \/ ToLower(TextAfterLastDot(request.filename)) \notin
       {<<"p","n","g">>, <<"j","p","g">>, <<"j","p","e","g">>, <<"g","i","f">>, <<"b","m","p">>, <<"t","i","f","f">>}

\* C19: an invalid upload never reaches the OCR service or the parser, and
\* the response it gets is 400 with success = false.
C19_InvalidUploadRejected ==
  InvalidUpload =>
    /\ calls = <<>>
    /\ pc \in {"request", "responded"}
    /\ pc = "responded" => (response.status = 400 /\ response.success = FALSE)
\* an upload named a.png.exe has been answered with 400 and nothing was called
C19_Witness ==
  /\ pc = "responded"
  /\ request.has_image
  /\ request.filename = <<"a",".","p","n","g",".","e","x","e">>
  /\ response.status = 400
  /\ calls = <<>>

\* C20: when text extraction fails the parser is never called and the
\* request is answered 500 with success = false; a 200 response comes only
\* after OCR succeeded and the OCR step, the parser and the scorer ran in
\* that order.
C20_OcrFailureFatal ==
  /\ ocr # "ok" => \A k \in 1..Len(calls) : calls[k] \notin {"parser", "scorer"}
  /\ (ocr # "ok" /\ pc = "responded" /\ calls # <<>>) =>
       (response.status = 500 /\ response.success = FALSE)
  /\ response.status = 200 =>
       (ocr = "ok" /\ response.success = TRUE /\ calls = <<"ocr", "parser", "scorer">>)
\* a valid upload whose OCR call failed has been answered with 500
C20_Witness ==
  /\ pc = "responded"
  /\ request.filename = <<"a",".","P","N","G">>
  /\ ocr = "provider_error"
  /\ calls = <<"ocr">>
  /\ response.status = 500

BoilerplateTokens ==
  {<<"p","a","k","i","s","t","a","n">>, <<"i","d","e","n","t","i","t","y">>, <<"c","a","r","d">>, <<"r","e","p","u","b","l","i","c">>, <<"g","o","v","e","r","n","m","e","n","t">>, <<"n","a","t","i","o","n","a","l">>,
   <<"c","o","m","p","u","t","e","r","i","z","e","d">>}
HasBoilerplate(v) == \E tok \in BoilerplateTokens : Contains(ToLower(v), tok)

\* C21: the record the pattern extractor hands on holds no name and no
\* father_name that contains, in any letter case, one of the seven
\* boilerplate tokens.
C21_BoilerplateRejected ==
  pc = "positions" =>
    /\ cnic_data.name # NULL => ~HasBoilerplate(cnic_data.name)
    /\ cnic_data.father_name # NULL => ~HasBoilerplate(cnic_data.father_name)
\* the name half of C21 alone
C21_NameOnly ==
  pc = "positions" => (cnic_data.name # NULL => ~HasBoilerplate(cnic_data.name))

\* the date-shaped tokens of t, each at its first occurrence only
DateMatches(t) == FindAll(DateGroup, t, NoFlags)
FirstOccurrences(xs) ==
  SelectSeq(Indices(Len(xs)), LAMBDA i : \A j \in 1..(i - 1) : xs[j] # xs[i])
DistinctDates(t) ==
  [k \in 1..Len(FirstOccurrences(DateMatches(t))) |->
     DateMatches(t)[FirstOccurrences(DateMatches(t))[k]]]
NullDateFields(r) ==
  SelectSeq(<<"date_of_birth", "date_of_issue", "date_of_expiry">>, LAMBDA f : r[f] = NULL)

\* C22: the fallback step gives the i-th still-null date field the formatted
\* i-th distinct date token of the text, leaves null the null fields beyond
\* the tokens, and keeps every date field that was set.
C22_FallbackDates ==
  [][(pc = "fallback") =>
       (/\ \A i \in 1..Len(NullDateFields(cnic_data)) :
             cnic_data'[NullDateFields(cnic_data)[i]] =
               IF i <= Len(DistinctDates(text))
               THEN FormatDate(DistinctDates(text)[i])
               ELSE NULL
        /\ \A f \in {"date_of_birth", "date_of_issue", "date_of_expiry"} :
             cnic_data[f] # NULL => cnic_data'[f] = cnic_data[f])]_vars
\* a text with a repeated token: the second field gets the second distinct
\* date and the third stays null
C22_Witness ==
  /\ pc = "cleanup"
  /\ Len(DateMatches(text)) = 3
  /\ Len(DistinctDates(text)) = 2
  /\ cnic_data.date_of_birth = FormatDate(DistinctDates(text)[1])
  /\ cnic_data.date_of_issue = FormatDate(DistinctDates(text)[2])
  /\ cnic_data.date_of_expiry = NULL

DateFieldsSet(r) ==
  {f \in {"date_of_birth", "date_of_issue", "date_of_expiry"} : r[f] # NULL}

\* C23: the returned record has no more date fields set than the text has
\* distinct date tokens.
C23_DateTokenBudget ==
  pc = "done" => Cardinality(DateFieldsSet(cnic_data)) <= Len(DistinctDates(raw_text))
\* the one token behind the label Birth has been given to two fields
C23_SingleLabelledToken ==
  (pc = "done" /\ raw_text = <<"B","i","r","t","h",":"," ","0","1","/","0","1","/","1","9","9","0">>)
    => Cardinality(DateFieldsSet(cnic_data)) <= 1

\* the lines of the OCR text that hold the label of a field
NameLabelLines(lines) ==
  {i \in 1..Len(lines) : /\ Contains(ToLower(lines[i]), <<"n","a","m","e">>)
                         /\ ~Contains(ToLower(lines[i]), <<"f","a","t","h","e","r">>)}
FatherLabelLines(lines) ==
  {i \in 1..Len(lines) : Contains(ToLower(lines[i]), <<"f","a","t","h","e","r">>)}
\* the first label line has no value of its own and the line after it is a
\* valid name
NextLineCase(lines, labelled, pattern) ==
  /\ labelled # {}
  /\ Search(pattern, lines[SetMin(labelled)], IC) = NoMatch
  /\ SetMin(labelled) + 1 <= Len(lines)
  /\ IsValidName(lines[SetMin(labelled) + 1])
NextLine(lines, labelled) == lines[SetMin(labelled) + 1]

\* C24: in a pipeline run whose OCR text has the label on one line and a
\* valid name on the next, the context step sets a still-null name (or
\* father_name) to the formatted next line.
C24_NextLineRule ==
  [][(pc = "context") =>
       (/\ (/\ cnic_data.name = NULL
            /\ NextLineCase(ContextLines(raw_text), NameLabelLines(ContextLines(raw_text)),
                            LineNamePattern))
             => cnic_data'.name =
                  FormatName(NextLine(ContextLines(raw_text),
                                      NameLabelLines(ContextLines(raw_text))))
        /\ (/\ cnic_data.father_name = NULL
            /\ NextLineCase(ContextLines(raw_text), FatherLabelLines(ContextLines(raw_text)),
                            LineFatherPattern))
             => cnic_data'.father_name =
                  FormatName(NextLine(ContextLines(raw_text),
                                      FatherLabelLines(ContextLines(raw_text)))))]_vars

\* the blocks that hold one of the keywords and whose candidate, the capture
\* of the pattern in the block itself or else the trimmed next block, is a
\* valid name
HasKeyword(block, keywords) == \E kw \in keywords : Contains(ToLower(block), kw)
CandidateOf(blocks, i, pattern) ==
  IF Search(pattern, blocks[i], IC) # NoMatch
  THEN Strip(Group1(blocks[i], Search(pattern, blocks[i], IC)))
  ELSE IF i < Len(blocks) THEN Strip(blocks[i + 1]) ELSE NULL
AcceptedAt(blocks, keywords, pattern) ==
  {i \in 1..Len(blocks) :
     /\ HasKeyword(blocks[i], keywords)
     /\ CandidateOf(blocks, i, pattern) # NULL
     /\ IsValidName(CandidateOf(blocks, i, pattern))}
BlockRule(blocks, keywords, pattern, old) ==
  IF old # NULL THEN old
  ELSE IF AcceptedAt(blocks, keywords, pattern) = {} THEN NULL
  ELSE FormatName(CandidateOf(blocks, SetMin(AcceptedAt(blocks, keywords, pattern)), pattern))

\* C25: the position step sets a still-null name (father_name) to the
\* formatted candidate of the first block, in block order, that holds the
\* label keyword and whose candidate is a valid name, and to nothing else.
C25_BlockRule ==
  [][(pc = "positions") =>
       (/\ cnic_data'.name =
             BlockRule(text_blocks, {<<"n","a","m","e">>, <<"U+0627","U+0633","U+0645">>, <<"h","o","l","d","e","r">>},
                       BlockNamePattern, cnic_data.name)
        /\ cnic_data'.father_name =
             BlockRule(text_blocks,
                       {<<"f","a","t","h","e","r">>, <<"U+0648","U+0627","U+0644","U+062F">>, <<"s","/","o">>, <<"d","/","o">>},
                       BlockFatherPattern, cnic_data.father_name))]_vars
\* the label alone in the first block and the block after it taken as name
C25_Witness ==
  /\ pc = "context"
  /\ raw_text = <<>>
  /\ text_blocks = <<<<"N","a","m","e">>, <<"Z","a","i","d"," ","K","h","a","n">>>>
  /\ cnic_data.name = <<"Z","a","i","d"," ","K","h","a","n">>

IsFatherToken(w) == IsTitle(w) /\ IsAlpha(w) /\ Len(w) > 2
\* the positions of the text tokens equal to the first word of the name
NameHits(words, name) ==
  {i \in 1..Len(words) : ToLower(words[i]) = ToLower(Split(name)[1])}
\* the window of at most 5 tokens after the name's span that starts at hit i
WindowOf(words, name, i) ==
  {j \in (i + Len(Split(name)))..(i + Len(Split(name)) + 4) : j <= Len(words)}
\* the first run of father tokens inside a window
RunIn(words, window) ==
  LET starts == {j \in window : IsFatherToken(words[j])}
  IN IF starts = {} THEN <<>>
     ELSE LET j0 == SetMin(starts)
              ends == {k \in window : k >= j0 /\ \A j \in j0..k : IsFatherToken(words[j])}
          IN SubSeq(words, j0, SetMax(ends))
\* father_name by the rule of the specification, from the first hit only
FatherFromFirstHit(t, name) ==
  IF NameHits(Split(t), name) = {} THEN NULL
  ELSE LET run == RunIn(Split(t), WindowOf(Split(t), name, SetMin(NameHits(Split(t), name))))
       IN IF run = <<>> THEN NULL ELSE JoinSpace(Prefix(run, 3))

\* C26 as stated, with the first occurrence of the name's first word only:
\* the fallback step leaves father_name as it is when it is set or when
\* name is null after the name fallback; otherwise father_name becomes the
\* first up to 3 tokens of the run of title-cased alphabetic tokens longer
\* than 2 found within 5 tokens after the span of the first token equal to
\* the first word of the name.
C26_FirstHitOnly ==
  [][(pc = "fallback") =>
       (/\ cnic_data.father_name # NULL => cnic_data'.father_name = cnic_data.father_name
        /\ cnic_data'.name = NULL => cnic_data'.father_name = cnic_data.father_name
        /\ (cnic_data.father_name = NULL /\ cnic_data'.name # NULL)
             => cnic_data'.father_name = FatherFromFirstHit(text, cnic_data'.name))]_vars
\* father_name from the first hit whose window holds a father token
FatherFromHits(t, name) ==
  LET hits == {i \in NameHits(Split(t), name) :
                 RunIn(Split(t), WindowOf(Split(t), name, i)) # <<>>}
  IN IF hits = {} THEN NULL
     ELSE JoinSpace(Prefix(RunIn(Split(t), WindowOf(Split(t), name, SetMin(hits))), 3))
\* C26 (amended): as above, with the run taken at the first token equal to
\* the first word of the name whose 5-token window holds such a token.
C26_LaterHits ==
  [][(pc = "fallback") =>
       (/\ cnic_data.father_name # NULL => cnic_data'.father_name = cnic_data.father_name
        /\ cnic_data'.name = NULL => cnic_data'.father_name = cnic_data.father_name
        /\ (cnic_data.father_name = NULL /\ cnic_data'.name # NULL)
             => cnic_data'.father_name = FatherFromHits(text, cnic_data'.name))]_vars
\* the window of the first occurrence holds no father token and the one of
\* the second occurrence gives the father's name
C26_Witness ==
  /\ pc = "cleanup"
  /\ raw_text = <<"O","m","a","r"," ","1"," ","2"," ","3"," ","4"," ","5"," ","O","m","a","r"," ","Z","a","i","d">>
  /\ cnic_data.name = <<"O","m","a","r">>
  /\ cnic_data.father_name = <<"Z","a","i","d">>

\* ------------------------------------------------------------------------
\* C27: the name fallback
\* ------------------------------------------------------------------------
StopWords ==
  <<<<"n","a","m","e">>, <<"f","a","t","h","e","r">>, <<"g","e","n","d","e","r">>, <<"c","o","u","n","t","r","y">>, <<"i","d","e","n","t","i","t","y">>, <<"d","a","t","e">>, <<"i","s","s","u","e">>, <<"b","i","r","t","h">>,
    <<"e","x","p","i","r","y">>, <<"p","a","k","i","s","t","a","n">>, <<"c","a","r","d">>, <<"n","a","t","i","o","n","a","l">>>>
NameCandidate(w) ==
  /\ IsAlpha(w)
  /\ IsTitle(w)
  /\ Len(w) > 2
  /\ \A k \in 1..Len(StopWords) : ToLower(w) # StopWords[k]
\* the positions of the candidates among the tokens of t, and the position
\* of the k-th of them
CandidateAt(t) == {i \in 1..Len(Split(t)) : NameCandidate(Split(t)[i])}
KthCandidate(t, k) ==
  CHOOSE i \in CandidateAt(t) : Cardinality({j \in CandidateAt(t) : j < i}) = k - 1
FallbackNameOf(t) ==
  LET n == Cardinality(CandidateAt(t))
      w(k) == Split(t)[KthCandidate(t, k)]
  IN IF n = 0 THEN NULL
     ELSE IF n = 1 THEN w(1)
     ELSE IF n = 2 THEN w(1) \o <<" ">> \o w(2)
     ELSE w(1) \o <<" ">> \o w(2) \o <<" ">> \o w(3)

\* C27: when name is null on entry to the fallback, the fallback step sets it
\* to the first up to 3 tokens of the text that are alphabetic, title-cased,
\* longer than 2 characters and off the stoplist, joined by single spaces,
\* and leaves it null when no token qualifies.
C27_FallbackName ==
  [][(pc = "fallback" /\ cnic_data.name = NULL) =>
       (cnic_data'.name = FallbackNameOf(text))]_vars
\* four candidates in the text: the name is the first three
C27_Witness ==
  /\ pc = "cleanup"
  /\ text_blocks = <<>>
  /\ Cardinality(CandidateAt(text)) > 3
  /\ cnic_data.name = FallbackNameOf(text)
  /\ Len(Split(cnic_data.name)) = 3
\* a text whose only title-cased words are on the stoplist
C27_StoplistOnly ==
  /\ pc = "cleanup"
  /\ CandidateAt(text) = {}
  /\ \E i \in 1..Len(Split(text)) : ToLower(Split(text)[i]) \in NameStoplist /\ IsTitle(Split(text)[i])
  /\ cnic_data.name = NULL

\* ------------------------------------------------------------------------
\* _is_valid_name on its own: one call on a candidate string
\* ------------------------------------------------------------------------
\* the candidates: a core with or without a leading blank and a tail
NameStrings ==
  LET NamePads == {<<>>, <<" ">>}
      NameCores ==
        {<<"A","l","i">>, <<"A">>, <<"A","l">>, <<"A","l","i"," ","K","h","a","n">>, <<"1","2">>, <<"1">>, <<"C","a","r","d","i","f","f">>, <<"U","p","d","a","t","e">>, <<"c","o","m","p","u","t","e","r","i","z","e","d">>,
         <<"M","r"," ","B","i","r","t","h","e">>, <<"U+0639","U+0644","U+06CC">>, <<"A","U+0639","U+0644","U+06CC">>, <<"A","l","i","-","K","h","a","n">>, <<>>}
      NameTails == {<<>>, <<" ">>, <<"1">>, <<"1","2">>, <<"-">>, <<" ","J","r",".">>}
  IN {NULL} \cup {a \o b \o c : a \in NamePads, b \in NameCores, c \in NameTails}

InitValid ==
  /\ raw_text \in NameStrings
  /\ text_blocks = <<>>
  /\ text = <<>>
  /\ cnic_data = EmptyRecord
  /\ pc = "is_valid_name"
  /\ total_fields = 0
  /\ filled_fields = 0
  /\ confidence_score = 0
  /\ request = NoRequest
  /\ ocr = "ok"
  /\ response = NoResponse
  /\ calls = <<>>
  /\ history = <<>>

\* the call returns: pc records which value was returned
IsValidNameStep ==
  /\ pc = "is_valid_name"
  /\ pc' = IF IsValidName(raw_text) THEN "returned_true" ELSE "returned_false"
  /\ UNCHANGED <<raw_text, text_blocks, text, cnic_data, total_fields, filled_fields,
                 confidence_score, request, ocr, response, calls, history>>

NextValid == IsValidNameStep

SpecValid == InitValid /\ [][NextValid]_vars

\* C28, read character by character
BoilerplateTerms ==
  {<<"P","A","K","I","S","T","A","N">>, <<"I","D","E","N","T","I","T","Y">>, <<"C","A","R","D">>, <<"R","E","P","U","B","L","I","C">>, <<"G","O","V","E","R","N","M","E","N","T">>, <<"N","A","T","I","O","N","A","L">>, <<"C","O","M","P","U","T","E","R","I","Z","E","D">>}
KeywordTerms == {<<"D","A","T","E">>, <<"B","I","R","T","H">>, <<"I","S","S","U","E">>, <<"E","X","P","I","R","Y">>, <<"G","E","N","D","E","R">>, <<"C","O","U","N","T","R","Y">>}
NonSpaceAt(s) == {i \in 1..Len(s) : ~IsSpaceChar(s[i])}
TrimmedLength(s) ==
  IF NonSpaceAt(s) = {} THEN 0
  ELSE 1 + (CHOOSE i \in NonSpaceAt(s) : \A j \in NonSpaceAt(s) : j <= i)
         - (CHOOSE i \in NonSpaceAt(s) : \A j \in NonSpaceAt(s) : j >= i)
HasTerm(s, terms) ==
  \E t \in terms : \E i \in 1..Len(s) :
    /\ i + Len(t) - 1 <= Len(s)
    /\ \A k \in 1..Len(t) : UpperChar(s[i + k - 1]) = t[k]
AllDigits(s) == Len(s) > 0 /\ \A i \in 1..Len(s) : s[i] \in Digits
HasLatinLetter(s) == \E i \in 1..Len(s) : s[i] \in AsciiLetters
AlphabeticAt(s) == {i \in 1..Len(s) : IsAlphaChar(s[i])}
ValidByRule(s) ==
  /\ s # NULL
  /\ TrimmedLength(s) >= 2
  /\ ~HasTerm(s, BoilerplateTerms)
  /\ ~HasTerm(s, KeywordTerms)
  /\ ~AllDigits(s)
  /\ HasLatinLetter(s)
  /\ 10 * Cardinality(AlphabeticAt(s)) >= 7 * Len(s)

C28_PaddedRejected ==
  /\ pc = "returned_false"
  /\ TrimmedLength(raw_text) >= 2
  /\ ~HasTerm(raw_text, BoilerplateTerms \cup KeywordTerms)
  /\ HasLatinLetter(raw_text)
  /\ 10 * Cardinality(AlphabeticAt(raw_text)) >= 7 * TrimmedLength(raw_text)

\* ------------------------------------------------------------------------
\* _clean_text on its own: one call on a text, and a second call on its result
\* ------------------------------------------------------------------------
MaxFragments == 2
\* the misread strings of the dictionary, three of them cut before their last
\* letter, a blank, a tab, a newline, a blank with a newline and a word
CleanFragments ==
  {replacements[i][1] : i \in 1..Len(replacements)}
    \cup {<<"F","a","t","h","e">>, <<"N","a","l","i","o","n","a">>, <<"N","a","t","l","o","n","a">>}
    \cup {<<" ">>, <<"\t">>, <<"\n">>, <<" ","\n">>, <<"A","l","i">>}
CleanInputs ==
  LET Cat[n \in 0..MaxFragments] ==
        IF n = 0 THEN {<<>>}
        ELSE Cat[n - 1] \cup {a \o b : a \in Cat[n - 1], b \in CleanFragments}
  IN Cat[MaxFragments]

InitClean ==
  /\ raw_text \in CleanInputs
  /\ text_blocks = <<>>
  /\ text = <<>>
  /\ cnic_data = EmptyRecord
  /\ pc = "clean_text"
  /\ total_fields = 0
  /\ filled_fields = 0
  /\ confidence_score = 0
  /\ request = NoRequest
  /\ ocr = "ok"
  /\ response = NoResponse
  /\ calls = <<>>
  /\ history = <<>>

\* text = self._clean_text(raw_text)
CleanTextStep ==
  /\ pc = "clean_text"
  /\ text' = CleanText(raw_text)
  /\ pc' = "cleaned"
  /\ UNCHANGED <<raw_text, text_blocks, cnic_data, total_fields, filled_fields,
                 confidence_score, request, ocr, response, calls, history>>

\* the result is given to _clean_text once more
CleanAgainStep ==
  /\ pc = "cleaned"
  /\ text' = CleanText(text)
  /\ pc' = "cleaned_again"
  /\ UNCHANGED <<raw_text, text_blocks, cnic_data, total_fields, filled_fields,
                 confidence_score, request, ocr, response, calls, history>>

NextClean ==
  \/ CleanTextStep
  \/ CleanAgainStep

SpecClean == InitClean /\ [][NextClean]_vars

\* the dictionary in another order: entry k moved to the front, or reversed
MovedToFront(k) ==
  <<replacements[k]>> \o
    [i \in 1..(Len(replacements) - 1) |-> replacements[IF i < k THEN i ELSE i + 1]]
Reversed == [i \in 1..Len(replacements) |-> replacements[Len(replacements) + 1 - i]]
OtherOrders == {Reversed} \cup {MovedToFront(k) : k \in 1..Len(replacements)}
\* the occurrences <<position, entry>> of misread strings in t, and whether
\* two of them share a character
Occurrences(t) ==
  {o \in (1..Len(t)) \X (1..Len(replacements)) :
     /\ o[1] + Len(replacements[o[2]][1]) - 1 <= Len(t)
     /\ SubSeq(t, o[1], o[1] + Len(replacements[o[2]][1]) - 1) = replacements[o[2]][1]}
SharedCharacters(t) ==
  \E o1, o2 \in Occurrences(t) :
    /\ o1 # o2
    /\ o1[1] <= o2[1]
    /\ o2[1] <= o1[1] + Len(replacements[o1[2]][1]) - 1

\* C29 as stated: every order of the dictionary gives the text that
\* _clean_text gives, also when occurrences of two misread strings share
\* characters.
C29_AnyOrder ==
  pc = "cleaned" =>
    \A order \in OtherOrders : ApplyReplacements(CollapseSpace(raw_text), order) = text
\* C29: for texts in which no two occurrences of misread strings share a
\* character, every order of the dictionary gives the text that _clean_text
\* gives.
C29_DisjointOrder ==
  (pc = "cleaned" /\ ~SharedCharacters(CollapseSpace(raw_text))) =>
    \A order \in OtherOrders : ApplyReplacements(CollapseSpace(raw_text), order) = text
\* two misread strings side by side, both corrected
C29_Witness ==
  /\ pc = "cleaned"
  /\ raw_text = <<"F","a","t","h","e","l","l","s","s","u","e">>
  /\ ~SharedCharacters(raw_text)
  /\ text = <<"F","a","t","h","e","r","I","s","s","u","e">>
\* 'Fathel' and 'lssue' sharing the l: the dictionary order corrects the first
C29_SharedL ==
  /\ pc = "cleaned"
  /\ raw_text = <<"F","a","t","h","e","l","s","s","u","e">>
  /\ text = <<"F","a","t","h","e","r","s","s","u","e">>
  /\ ApplyReplacements(raw_text, Reversed) = <<"F","a","t","h","e","I","s","s","u","e">>

\* ------------------------------------------------------------------------
\* C30: the whitespace of the normalized text
\* ------------------------------------------------------------------------
\* the positions where a run of blanks, tabs or newlines begins
RunStarts(t) ==
  {i \in 1..Len(t) : t[i] \in WhiteSpace /\ (i = 1 \/ t[i - 1] \notin WhiteSpace)}
BlanksOf(t) == {i \in 1..Len(t) : t[i] = " "}
SingleBlanks(t) ==
  /\ \A i \in 1..Len(t) : t[i] \in WhiteSpace => t[i] = " "
  /\ \A i \in 1..(Len(t) - 1) : ~(t[i] = " " /\ t[i + 1] = " ")

\* C30: the normalized text has no tab or newline and no two adjacent blanks,
\* it has one blank for every run of blanks, tabs or newlines of the input and
\* as many other characters around them as the input has words, the empty
\* text gives the empty text, and normalizing the normalized text gives it
\* back unchanged.
C30_WhitespaceCollapse ==
  /\ [](pc = "cleaned" =>
          /\ SingleBlanks(text)
          /\ Cardinality(BlanksOf(text)) = Cardinality(RunStarts(raw_text))
          /\ Len(Split(text)) = Len(Split(raw_text))
          /\ (Len(text) > 0 /\ text[1] = " ") <=> (Len(raw_text) > 0 /\ raw_text[1] \in WhiteSpace)
          /\ raw_text = <<>> => text = <<>>)
  /\ [][(pc = "cleaned") => (text' = text)]_vars
\* a word followed by a blank and a newline: one blank is left, and the second
\* call changes nothing
C30_Witness ==
  /\ pc = "cleaned_again"
  /\ raw_text = <<"A","l","i"," ","\n">>
  /\ text = <<"A","l","i"," ">>
\* the empty text
C30_Empty ==
  /\ pc = "cleaned_again"
  /\ raw_text = <<>>
  /\ text = <<>>

====
